---- MODULE Spec2Model ----
(***************************************************************************)
(* The responder negotiation of createResponderEventPlugin.js as a state   *)
(* machine: one action per call of ResponderEventPlugin.extractEvents and  *)
(* one per injection.  The tree traversal, the dispatch accumulators and   *)
(* executors and the touch history store are collaborators whose code is   *)
(* in other files; they are modelled from their documented contract.       *)
(***************************************************************************)
EXTENDS Integers, Sequences, FiniteSets, Bags, TLC

\* ------------------------------------------------------------------ bounds

\* trackedTouchCount is unbounded in the code; start-ish events are only
\* offered while it is below this bound.
MaxTrackedTouches == 1

\* the longest nativeEvent.touches list the environment offers
MaxTouches == 2

\* the most start-ish and end-ish events passed to extractEvents while they
\* are tallied
MaxTally == 4

\* the most should-set listeners registered along one target's path
MaxListeners == 1

\* prototypes without enumerable keys between a native event and the
\* prototype that declares target
MaxPrototypes == 10

\* --------------------------------------------------------- instance tree

\* `null` (no instance, no responder)
NoInst == 0

\* The instance tree the events are dispatched on, as the parent of each
\* instance: 1 is the root, 2 and 3 are its children.
ParentOf == <<0, 1, 1>>

Insts == DOMAIN ParentOf

getParent(inst) == ParentOf[inst]

\* the instances from inst up to the root, inst first
RECURSIVE pathToRoot(_)
pathToRoot(inst) ==
  IF inst = NoInst THEN <<>> ELSE <<inst>> \o pathToRoot(getParent(inst))

SeqRange(s) == {s[k] : k \in DOMAIN s}

Reverse(s) == [k \in DOMAIN s |-> s[Len(s) + 1 - k]]

\* ReactTreeTraversal.isAncestor(instA, instB): instA is instB or above it
isAncestor(instA, instB) == instA \in SeqRange(pathToRoot(instB))

\* ReactTreeTraversal.getLowestCommonAncestor(instA, instB)
getLowestCommonAncestor(instA, instB) ==
  LET common == SelectSeq(pathToRoot(instA),
                          LAMBDA i : i \in SeqRange(pathToRoot(instB)))
  IN IF common = <<>> THEN NoInst ELSE Head(common)

\* ------------------------------------------------------- top-level types

StartTypes == {"topMouseDown", "topTouchStart"}
MoveTypes == {"topMouseMove", "topTouchMove"}
EndTypes == {"topMouseUp", "topTouchEnd", "topTouchCancel"}

TopLevelTypes ==
  StartTypes \cup MoveTypes \cup EndTypes \cup {"topScroll", "topSelectionChange"}

isStartish(topLevelType) == topLevelType \in StartTypes

isMoveish(topLevelType) == topLevelType \in MoveTypes

isEndish(topLevelType) == topLevelType \in EndTypes

\* ------------------------------------------------------------- handlers

\* What a handler prop of an instance does when the plugin looks it up and
\* invokes it: there is no listener, or it returns a falsy value, the value
\* true, or a truthy value other than true.
NoListener == "none"
ReturnValues == {"falsy", "true", "truthy"}
Answers == {NoListener} \cup ReturnValues

isTruthy(ret) == ret \in {"true", "truthy"}

Phases == {"captured", "bubbled"}

\* eventTypes[...].phasedRegistrationNames of the should-set query
shouldSetEventType(topLevelType) ==
  IF isStartish(topLevelType) THEN "onStartShouldSetResponder"
  ELSE IF isMoveish(topLevelType) THEN "onMoveShouldSetResponder"
  ELSE IF topLevelType = "topSelectionChange"
       THEN "onSelectionChangeShouldSetResponder"
  ELSE "onScrollShouldSetResponder"

registrationName(eventType, phase) ==
  IF phase = "captured" THEN eventType \o "Capture" ELSE eventType

\* EventPropagators.traverseTwoPhase: capture from the root down to inst,
\* then bubble from inst up to the root
traverseTwoPhase(inst) ==
  LET path == pathToRoot(inst)
  IN [k \in 1..Len(path) |-> <<Reverse(path)[k], "captured">>]
     \o [k \in 1..Len(path) |-> <<path[k], "bubbled">>]

\* accumulateTwoPhaseDispatches(event): the slots of the traversal that have
\* a listener
accumulateTwoPhaseDispatches(targetInst, listeners) ==
  SelectSeq(traverseTwoPhase(targetInst), LAMBDA d : listeners[d] # NoListener)

\* accumulateTwoPhaseDispatchesSkipTarget(event): the same from the parent
accumulateTwoPhaseDispatchesSkipTarget(targetInst, listeners) ==
  accumulateTwoPhaseDispatches(
    IF targetInst = NoInst THEN NoInst ELSE getParent(targetInst), listeners)

\* executeDispatchesInOrderStopAtTrue(event): invokes the listeners in order
\* and stops at the first truthy return.  Gives the invocations made, each
\* <<instance, phase, return value>>, and the instance that won (or NoInst).
RECURSIVE executeDispatchesInOrderStopAtTrue(_, _)
executeDispatchesInOrderStopAtTrue(dispatches, listeners) ==
  IF dispatches = <<>> THEN [invoked |-> <<>>, inst |-> NoInst]
  ELSE LET d == Head(dispatches)
           ret == listeners[d]
       IN IF isTruthy(ret)
          THEN [invoked |-> <<<<d[1], d[2], ret>>>>, inst |-> d[1]]
          ELSE LET rest == executeDispatchesInOrderStopAtTrue(Tail(dispatches),
                                                              listeners)
               IN [invoked |-> <<<<d[1], d[2], ret>>>> \o rest.invoked,
                   inst |-> rest.inst]

\* --------------------------------------------------------------- state

VARIABLES
  responderInst,            \* the instance that owns the interaction, or NoInst
  trackedTouchCount,        \* count of current touches
  previousActiveTouches,    \* last reported number of active touches
  numberActiveTouches,      \* ResponderTouchHistoryStore.touchHistory
  GlobalResponderHandler,   \* TRUE when a handler is injected, FALSE for null
  GlobalInteractionHandler, \* TRUE when a handler is injected, FALSE for null
  touches,                  \* the platform's active touches: the bag of the
                            \* instances they started on
  holders,                  \* instances told they are responder and not yet
                            \* told they no longer are
  pc,                       \* "idle", or "extracted" between extractEvents
                            \* returning and the hub delivering what it returned
  call,                     \* arguments of the extractEvents call and the plugin
                            \* state it started from
  extracted,                \* the events extractEvents returned
  dropped,                  \* extractEvents returned at the accounting error
  queried,                  \* extractEvents ran setResponderAndExtractTransfer
  onDemand,                 \* handlers invoked during the extraction, in order
  responderChanges,         \* GlobalResponderHandler.onChange calls made
  interactionChanges,       \* GlobalInteractionHandler.onChange calls made
  frame,                    \* the extractEvents call a handler is running in
  raised,                   \* native events raised, where handlers raise some
  simple,                   \* the SimpleEventPlugin.extractEvents call
  synthetic,                \* the event createSyntheticCreator made
  dispatch,                 \* one pass of the dispatch executor
  pool,                     \* the pooled events of one negotiation
  tally,                    \* the start-ish and end-ish events so far
  element                   \* the DOM element updateListener works on

\* the responder plugin and its surroundings
responderVars ==
  <<responderInst, trackedTouchCount, previousActiveTouches, numberActiveTouches,
    GlobalResponderHandler, GlobalInteractionHandler, touches, holders, pc, call,
    extracted, dropped, queried, onDemand, responderChanges,
    interactionChanges, frame, raised>>

\* what the responder plugin has no part in
otherVars == <<simple, synthetic, dispatch, pool, tally, element>>

vars == <<responderVars, otherVars>>

\* ------------------------------------------------------ the plugin's code

\* ResponderSyntheticEvent.getPooled(dispatchConfig, targetInst, ...)
getPooled(dispatchConfig, inst) ==
  [dispatchConfig |-> dispatchConfig, targetInst |-> inst]

startDependencies == {"topTouchStart", "topMouseDown"}
moveDependencies == {"topTouchMove", "topMouseMove"}
endDependencies == {"topTouchCancel", "topTouchEnd", "topMouseUp"}

\* eventTypes: the dependencies of each dispatch configuration
eventTypes ==
  [onStartShouldSetResponder |-> [dependencies |-> startDependencies],
   onScrollShouldSetResponder |-> [dependencies |-> {"topScroll"}],
   onSelectionChangeShouldSetResponder |->
     [dependencies |-> {"topSelectionChange"}],
   onMoveShouldSetResponder |-> [dependencies |-> moveDependencies],
   onResponderStart |-> [dependencies |-> startDependencies],
   onResponderMove |-> [dependencies |-> moveDependencies],
   onResponderEnd |-> [dependencies |-> endDependencies],
   onResponderRelease |-> [dependencies |-> {}],
   onResponderTerminationRequest |-> [dependencies |-> {}],
   onResponderGrant |-> [dependencies |-> {}],
   onResponderReject |-> [dependencies |-> {}],
   onResponderTerminate |-> [dependencies |-> {}]]

\* accumulate(current, next): null is the empty list, an event a list of one
accumulate(current, next) == current \o next

\* changeResponder handing the hook the new responder where the old one goes
changeResponderSwapped(st, nextResponderInst, blockHostResponder) ==
  [responderInst |-> nextResponderInst,
   onChange |->
     IF GlobalResponderHandler
     THEN Append(st.onChange,
                 <<nextResponderInst, st.responderInst, blockHostResponder>>)
     ELSE st.onChange]

\* changeResponder that does not take null for a responder
changeResponderNeverNull(st, nextResponderInst, blockHostResponder) ==
  [responderInst |->
     IF nextResponderInst = NoInst THEN st.responderInst
     ELSE nextResponderInst,
   onChange |->
     IF GlobalResponderHandler
     THEN Append(st.onChange,
                 <<st.responderInst, nextResponderInst, blockHostResponder>>)
     ELSE st.onChange]

\* changeResponder(nextResponderInst, blockHostResponder) on the responder
\* and the hook calls made so far
changeResponder(st, nextResponderInst, blockHostResponder) ==
  [responderInst |-> nextResponderInst,
   onChange |->
     IF GlobalResponderHandler
     THEN Append(st.onChange,
                 <<st.responderInst, nextResponderInst, blockHostResponder>>)
     ELSE st.onChange]

\* a bubble origin that forgets the responder
bubbleShouldSetFromTarget(responder, targetInst) == targetInst

\* the bubble origin of the should-set query
bubbleShouldSetFrom(responder, targetInst) ==
  IF responder = NoInst THEN targetInst
  ELSE getLowestCommonAncestor(responder, targetInst)

\* the dispatches the should-set event accumulates: its origin is skipped
\* when it is the responder
shouldSetDispatches(responder, targetInst, listeners) ==
  LET from == bubbleShouldSetFrom(responder, targetInst)
      skipOverBubbleShouldSetFrom == from = responder
  IN IF skipOverBubbleShouldSetFrom
     THEN accumulateTwoPhaseDispatchesSkipTarget(from, listeners)
     ELSE accumulateTwoPhaseDispatches(from, listeners)

\* a query that never skips its origin
shouldSetQueryNoSkip(responder, targetInst, listeners) ==
  executeDispatchesInOrderStopAtTrue(
    accumulateTwoPhaseDispatches(bubbleShouldSetFrom(responder, targetInst),
                                 listeners),
    listeners)

\* the should-set query: the listeners invoked and the instance that wants
\* to become responder
shouldSetQuery(responder, targetInst, listeners) ==
  executeDispatchesInOrderStopAtTrue(
    shouldSetDispatches(responder, targetInst, listeners), listeners)

\* executeDirectDispatch of a direct event on inst: the invocation made, if
\* the instance has the listener
directDispatch(name, inst, answer) ==
  IF answer = NoListener THEN <<>> ELSE <<<<name, inst, answer>>>>

\* a guard that forgets the query may nominate nobody
noCandidateSame(wantsResponderInst, responder) ==
  wantsResponderInst = responder

\* `!wantsResponderInst || wantsResponderInst === responderInst`: the query
\* nominated nobody new
noCandidate(wantsResponderInst, responder) ==
  wantsResponderInst = NoInst \/ wantsResponderInst = responder

\* any truthy return of the grant listener blocks the host responder
blockHostResponderTruthy(grantAnswer) ==
  IF isTruthy(grantAnswer) THEN "true" ELSE "false"

\* `executeDirectDispatch(grantEvent) === true`, given what the grant listener
\* of the candidate does
blockHostResponder(grantAnswer) ==
  IF grantAnswer = "true" THEN "true" ELSE "false"

\* a responder without a termination-request listener refuses
shouldSwitchOnlyTruthy(requestAnswer) == isTruthy(requestAnswer)

\* the answer of the responder is ignored
shouldSwitchAlways(requestAnswer) == requestAnswer = requestAnswer

\* the answer of the responder is read the wrong way round
shouldSwitchNegated(requestAnswer) ==
  ~(requestAnswer = NoListener \/ isTruthy(requestAnswer))

\* `!hasDispatches(terminationRequestEvent) ||
\*  executeDirectDispatch(terminationRequestEvent)`, given what the
\* termination-request listener of the responder does
shouldSwitch(requestAnswer) ==
  requestAnswer = NoListener \/ isTruthy(requestAnswer)

\* a transfer that does not tell the old responder
transferEventsNoTerminate(wantsResponderInst, responder) ==
  <<getPooled("onResponderGrant", wantsResponderInst)>>

\* the events a transfer from responder to wantsResponderInst extracts
transferEvents(wantsResponderInst, responder) ==
  <<getPooled("onResponderGrant", wantsResponderInst),
    getPooled("onResponderTerminate", responder)>>

\* setResponderAndExtractTransfer.  props gives what the handler props looked
\* up in this call do; st is the responder and the hook calls so far.  The
\* result holds the events extracted, the new st and the handlers invoked, in
\* order, each as <<registration name, instance, return value>>.
setResponderAndExtractTransfer(topLevelType, targetInst, props, st) ==
  LET eventType == shouldSetEventType(topLevelType)
      query == shouldSetQuery(st.responderInst, targetInst, props.shouldSet)
      asked == [k \in DOMAIN query.invoked |->
                  <<registrationName(eventType, query.invoked[k][2]),
                    query.invoked[k][1], query.invoked[k][3]>>]
      wantsResponderInst == query.inst
      grantEvent == getPooled("onResponderGrant", wantsResponderInst)
      block == blockHostResponder(props.onResponderGrant)
      grantCall ==
        directDispatch("onResponderGrant", wantsResponderInst,
                       props.onResponderGrant)
      requestCall ==
        directDispatch("onResponderTerminationRequest", st.responderInst,
                       props.onResponderTerminationRequest)
  IN IF noCandidate(wantsResponderInst, st.responderInst)
     THEN [extracted |-> <<>>, st |-> st, onDemand |-> asked]
     ELSE IF st.responderInst # NoInst
     THEN IF shouldSwitch(props.onResponderTerminationRequest)
          THEN [extracted |->
                  accumulate(<<>>,
                    transferEvents(wantsResponderInst, st.responderInst)),
                st |-> changeResponder(st, wantsResponderInst, block),
                onDemand |-> asked \o grantCall \o requestCall]
          ELSE [extracted |->
                  accumulate(<<>>,
                    <<getPooled("onResponderReject", wantsResponderInst)>>),
                st |-> st,
                onDemand |-> asked \o grantCall \o requestCall]
     ELSE [extracted |-> accumulate(<<>>, <<grantEvent>>),
           st |-> changeResponder(st, wantsResponderInst, block),
           onDemand |-> asked \o grantCall]

\* responderIgnoreScroll is not looked at
canTriggerTransferAnyScroll(topLevelType, topLevelInst, nativeEvent, count) ==
  /\ topLevelInst # NoInst
  /\ \/ topLevelType = "topScroll"
     \/ count > 0 /\ topLevelType = "topSelectionChange"
     \/ isStartish(topLevelType)
     \/ isMoveish(topLevelType)

\* a selection change negotiates as soon as the count is not negative
canTriggerTransferSelectionAtZero(topLevelType, topLevelInst, nativeEvent, count) ==
  /\ topLevelInst # NoInst
  /\ \/ topLevelType = "topScroll" /\ ~nativeEvent.responderIgnoreScroll
     \/ count >= 0 /\ topLevelType = "topSelectionChange"
     \/ isStartish(topLevelType)
     \/ isMoveish(topLevelType)

\* end-ish events negotiate as well
canTriggerTransferAnyTouch(topLevelType, topLevelInst, nativeEvent, count) ==
  /\ topLevelInst # NoInst
  /\ \/ topLevelType = "topScroll" /\ ~nativeEvent.responderIgnoreScroll
     \/ count > 0 /\ topLevelType = "topSelectionChange"
     \/ isStartish(topLevelType)
     \/ isMoveish(topLevelType)
     \/ isEndish(topLevelType)

\* canTriggerTransfer(topLevelType, topLevelInst, nativeEvent), count being
\* trackedTouchCount at the time of the call
canTriggerTransfer(topLevelType, topLevelInst, nativeEvent, count) ==
  /\ topLevelInst # NoInst
  /\ \/ topLevelType = "topScroll" /\ ~nativeEvent.responderIgnoreScroll
     \/ count > 0 /\ topLevelType = "topSelectionChange"
     \/ isStartish(topLevelType)
     \/ isMoveish(topLevelType)

\* only the touches that started on the responder itself are counted
noResponderTouchesOnResponder(nativeEvent, responder) ==
  \/ BagCardinality(nativeEvent.touches) = 0
  \/ \A target \in BagToSet(nativeEvent.touches) : target # responder

\* noResponderTouches(nativeEvent) for the responder at that moment; a touch
\* whose target is no instance's node has the instance NoInst
noResponderTouches(nativeEvent, responder) ==
  \/ BagCardinality(nativeEvent.touches) = 0
  \/ \A target \in BagToSet(nativeEvent.touches) :
       ~(target # NoInst /\ isAncestor(responder, target))

\* ResponderTouchHistoryStore.recordTouchTrack: the number of active touches
\* after the event, the touches the native event lists; an event that is not
\* a touch event carries no touch list and leaves the history as it is
TouchTypes == {"topTouchStart", "topTouchMove", "topTouchEnd", "topTouchCancel"}

recordTouchTrack(topLevelType, nativeEvent, activeTouches) ==
  IF topLevelType \in TouchTypes THEN BagCardinality(nativeEvent.touches)
  ELSE activeTouches

\* bookkeeping that decrements the count even when it drops the event
trackTouchCountDecrementsOnDrop(topLevelType, count) ==
  IF isStartish(topLevelType) THEN [count |-> count + 1, dropped |-> FALSE]
  ELSE IF isEndish(topLevelType)
  THEN [count |-> count - 1, dropped |-> count < 0]
  ELSE [count |-> count, dropped |-> FALSE]

\* the touch-count bookkeeping at the head of extractEvents: the new count,
\* and whether the event is dropped
trackTouchCount(topLevelType, count) ==
  IF isStartish(topLevelType) THEN [count |-> count + 1, dropped |-> FALSE]
  ELSE IF isEndish(topLevelType)
  THEN IF count >= 0 THEN [count |-> count - 1, dropped |-> FALSE]
       ELSE [count |-> count, dropped |-> TRUE]
  ELSE [count |-> count, dropped |-> FALSE]

\* no incremental event for a start-ish event
incrementalTouchNoStart(topLevelType, responder) ==
  IF responder # NoInst /\ isMoveish(topLevelType) THEN "onResponderMove"
  ELSE IF responder # NoInst /\ isEndish(topLevelType) THEN "onResponderEnd"
  ELSE "null"

\* a scroll taken for a move
incrementalTouchForScroll(topLevelType, responder) ==
  IF responder # NoInst /\ isStartish(topLevelType) THEN "onResponderStart"
  ELSE IF responder # NoInst /\ (isMoveish(topLevelType) \/ topLevelType = "topScroll")
  THEN "onResponderMove"
  ELSE IF responder # NoInst /\ isEndish(topLevelType) THEN "onResponderEnd"
  ELSE "null"

\* an incremental event that takes an end-ish type for a move
incrementalTouchEndAsMove(topLevelType, responder) ==
  IF responder # NoInst /\ isStartish(topLevelType) THEN "onResponderStart"
  ELSE IF responder # NoInst
          /\ (isMoveish(topLevelType) \/ isEndish(topLevelType))
  THEN "onResponderMove"
  ELSE "null"

\* no incremental event for an end-ish event
incrementalTouchNoEnd(topLevelType, responder) ==
  IF responder # NoInst /\ isStartish(topLevelType) THEN "onResponderStart"
  ELSE IF responder # NoInst /\ isMoveish(topLevelType)
  THEN "onResponderMove"
  ELSE "null"

\* the incremental event for whoever is responder after the transfer stage
incrementalTouch(topLevelType, responder) ==
  IF responder # NoInst /\ isStartish(topLevelType) THEN "onResponderStart"
  ELSE IF responder # NoInst /\ isMoveish(topLevelType) THEN "onResponderMove"
  ELSE IF responder # NoInst /\ isEndish(topLevelType) THEN "onResponderEnd"
  ELSE "null"

\* every end of the interaction reported as a termination
finalTouchAlwaysTerminate(topLevelType, nativeEvent, responder) ==
  IF responder # NoInst /\ isEndish(topLevelType)
  THEN "onResponderTerminate" ELSE "null"

\* a cancellation taken for any other end
finalTouchCancelAsEnd(topLevelType, nativeEvent, responder) ==
  IF /\ responder # NoInst
     /\ isEndish(topLevelType)
     /\ noResponderTouches(nativeEvent, responder)
  THEN "onResponderRelease" ELSE "null"

\* the terminal event
finalTouch(topLevelType, nativeEvent, responder) ==
  LET isResponderTerminate ==
        responder # NoInst /\ topLevelType = "topTouchCancel"
      isResponderRelease ==
        /\ responder # NoInst
        /\ ~isResponderTerminate
        /\ isEndish(topLevelType)
        /\ noResponderTouches(nativeEvent, responder)
  IN IF isResponderTerminate THEN "onResponderTerminate"
     ELSE IF isResponderRelease THEN "onResponderRelease"
     ELSE "null"

\* the interaction hook reports every count, changed or not
interactionOnChangeAlways(active, previous) ==
  IF GlobalInteractionHandler THEN <<active>> ELSE <<>>

\* the calls of GlobalInteractionHandler.onChange at the end of extractEvents,
\* given the number of active touches now and the number last reported
interactionOnChange(active, previous) ==
  IF GlobalInteractionHandler /\ active # previous THEN <<active>> ELSE <<>>

\* ResponderEventPlugin.extractEvents from the current plugin state: the new
\* values of the plugin's variables, what it returns and the calls it makes
extractEvents(topLevelType, targetInst, nativeEvent, props) ==
  LET tracked == trackTouchCount(topLevelType, trackedTouchCount)
      st0 == [responderInst |-> responderInst, onChange |-> <<>>]
      active == recordTouchTrack(topLevelType, nativeEvent, numberActiveTouches)
      transfer ==
        IF canTriggerTransfer(topLevelType, targetInst, nativeEvent,
                              tracked.count)
        THEN setResponderAndExtractTransfer(topLevelType, targetInst, props, st0)
        ELSE [extracted |-> <<>>, st |-> st0, onDemand |-> <<>>]
      st1 == transfer.st
      incremental == incrementalTouch(topLevelType, st1.responderInst)
      extracted1 ==
        IF incremental # "null"
        THEN accumulate(transfer.extracted,
                        <<getPooled(incremental, st1.responderInst)>>)
        ELSE transfer.extracted
      final == finalTouch(topLevelType, nativeEvent, st1.responderInst)
      extracted2 ==
        IF final # "null"
        THEN accumulate(extracted1, <<getPooled(final, st1.responderInst)>>)
        ELSE extracted1
      st2 == IF final # "null" THEN changeResponder(st1, NoInst, "undefined")
             ELSE st1
  IN IF tracked.dropped
     THEN [dropped |-> TRUE, queried |-> FALSE, extracted |-> <<>>,
           responderInst |-> responderInst,
           trackedTouchCount |-> tracked.count,
           numberActiveTouches |-> numberActiveTouches,
           previousActiveTouches |-> previousActiveTouches,
           onDemand |-> <<>>, responderChanges |-> <<>>,
           interactionChanges |-> <<>>]
     ELSE [dropped |-> FALSE,
           queried |-> canTriggerTransfer(topLevelType, targetInst,
                                          nativeEvent, tracked.count),
           extracted |-> extracted2,
           responderInst |-> st2.responderInst,
           trackedTouchCount |-> tracked.count,
           numberActiveTouches |-> active,
           previousActiveTouches |-> active,
           onDemand |-> transfer.onDemand,
           responderChanges |-> st2.onChange,
           interactionChanges |->
             interactionOnChange(active, previousActiveTouches)]

\* ---------------------------------------------------------- environment

InstOrNone == Insts \cup {NoInst}

\* a touch list that lists one touch, started on inst
OneTouch(inst) == SetToBag({inst})

\* The native events the platform can raise next, each with the target
\* instance it is dispatched with and the touches active after it.  A touch
\* keeps the target it started on; a move or an end can arrive with no target
\* instance.  Mouse events carry no touch list, and a mouse-up can arrive
\* without a mouse-down that was seen.
NativeEvents ==
  {[topLevelType |-> "topTouchStart", targetInst |-> t,
    nativeEvent |-> [touches |-> touches (+) OneTouch(t),
                     responderIgnoreScroll |-> FALSE],
    touches |-> touches (+) OneTouch(t)] :
     t \in {i \in InstOrNone : BagCardinality(touches) < MaxTouches}}
  \cup
  {[topLevelType |-> "topTouchMove", targetInst |-> t[2],
    nativeEvent |-> [touches |-> touches, responderIgnoreScroll |-> FALSE],
    touches |-> touches] :
     t \in {<<k, i>> \in BagToSet(touches) \X InstOrNone : i \in {k, NoInst}}}
  \cup
  {[topLevelType |-> t[3], targetInst |-> t[2],
    nativeEvent |-> [touches |-> touches (-) OneTouch(t[1]),
                     responderIgnoreScroll |-> FALSE],
    touches |-> touches (-) OneTouch(t[1])] :
     t \in {<<k, i, type>> \in
              BagToSet(touches) \X InstOrNone \X {"topTouchEnd", "topTouchCancel"} :
              i \in {k, NoInst}}}
  \cup
  {[topLevelType |-> t[1], targetInst |-> t[2],
    nativeEvent |-> [touches |-> EmptyBag, responderIgnoreScroll |-> t[3]],
    touches |-> touches] :
     t \in {<<type, i, ignore>> \in
              {"topMouseDown", "topMouseMove", "topMouseUp", "topScroll",
               "topSelectionChange"} \X InstOrNone \X BOOLEAN :
              ignore => type = "topScroll"}}

\* the phased should-set listener slots of the target and of the instances
\* above it; the query's traversal stays within them
SlotsOf(inst) == SeqRange(traverseTwoPhase(inst))

NoListeners(slots) == [d \in slots |-> NoListener]

\* what the should-set listeners of each target and of the instances above it
\* may do, with at most MaxListeners of them registered
ShouldSetTables ==
  [inst \in InstOrNone |->
     {t \in [SlotsOf(inst) -> {NoListener, "falsy", "true"}] :
        Cardinality({d \in SlotsOf(inst) : t[d] # NoListener}) <= MaxListeners}]

NoCall ==
  [topLevelType |-> "none", targetInst |-> NoInst,
   nativeEvent |-> [touches |-> EmptyBag, responderIgnoreScroll |-> FALSE],
   props |-> [shouldSet |-> NoListeners({}), onResponderGrant |-> NoListener,
              onResponderTerminationRequest |-> NoListener],
   responderInst |-> NoInst, trackedTouchCount |-> 0,
   numberActiveTouches |-> 0, previousActiveTouches |-> 0]

\* no extractEvents call is under way.  Otherwise: the handler that is
\* running (at), the event of the call, the should-set dispatches not yet
\* returned from (pending), the locals wantsResponderInst, blockHostResponder
\* and numberActiveTouches, the changeResponder call the responder hook was
\* called from (site), and the native events handlers of the call have
\* raised (nested).
NoFrame ==
  [at |-> "none", topLevelType |-> "none", targetInst |-> NoInst,
   nativeEvent |-> NoCall.nativeEvent, pending |-> <<>>, wants |-> NoInst,
   block |-> "false", active |-> 0, site |-> "none", nested |-> <<>>]

\* no synthetic event created yet
NoSynthetic == [created |-> FALSE]

\* no pass of the executor yet
NoDispatch == [ran |-> FALSE]

\* no negotiation traced yet
NoPool == [ran |-> FALSE]

\* no element created yet
NoElement ==
  [created |-> FALSE, nodeName |-> <<>>, type |-> "undefined",
   disabled |-> FALSE, listeners |-> <<>>, eventListeners |-> <<>>,
   props |-> <<>>, call |-> <<>>,
   fired |-> [type |-> <<>>, calls |-> <<>>]]

\* no start-ish or end-ish event yet
NoTally == [starts |-> 0, ends |-> 0, counted |-> 0]

\* no SimpleEventPlugin call is recorded
NoSimple ==
  [topLevelType |-> "none", charCode |-> 0, button |-> 0, result |-> <<>>,
   warned |-> FALSE]

\* ------------------------------------------------------------- actions

\* what the responder plugin has no part in is at rest
OtherInit ==
  /\ simple = NoSimple
  /\ synthetic = NoSynthetic
  /\ dispatch = NoDispatch
  /\ pool = NoPool
  /\ tally = NoTally
  /\ element = NoElement

ResponderInit ==
  /\ responderInst = NoInst
  /\ trackedTouchCount = 0
  /\ previousActiveTouches = 0
  /\ numberActiveTouches = 0
  /\ GlobalResponderHandler = FALSE
  /\ GlobalInteractionHandler = FALSE
  /\ touches = EmptyBag
  /\ holders = {}
  /\ pc = "idle"
  /\ call = NoCall
  /\ extracted = <<>>
  /\ dropped = FALSE
  /\ queried = FALSE
  /\ onDemand = <<>>
  /\ responderChanges = <<>>
  /\ interactionChanges = <<>>
  /\ frame = NoFrame
  /\ raised = 0

Init == ResponderInit /\ OtherInit

injectGlobalResponderHandler ==
  /\ pc = "idle"
  /\ ~GlobalResponderHandler
  /\ GlobalResponderHandler' = TRUE
  /\ UNCHANGED <<responderInst, trackedTouchCount, previousActiveTouches,
                 numberActiveTouches, GlobalInteractionHandler, touches, holders,
                 pc, call, extracted, dropped, queried, onDemand,
                 responderChanges, interactionChanges, frame, raised,
                 otherVars>>

injectGlobalInteractionHandler ==
  /\ pc = "idle"
  /\ ~GlobalInteractionHandler
  /\ GlobalInteractionHandler' = TRUE
  /\ UNCHANGED <<responderInst, trackedTouchCount, previousActiveTouches,
                 numberActiveTouches, GlobalResponderHandler, touches, holders,
                 pc, call, extracted, dropped, queried, onDemand,
                 responderChanges, interactionChanges, frame, raised,
                 otherVars>>

\* What the handler props looked up in an extractEvents call for ev do, the
\* call starting in the current state: the should-set listeners of the target
\* and of the instances above it when the event can trigger a transfer, and
\* the grant and termination-request listeners when the call looks them up; a
\* listener the call cannot reach is left out, as it cannot act.
PropsFor(ev) ==
  LET negotiates ==
        /\ ~trackTouchCount(ev.topLevelType, trackedTouchCount).dropped
        /\ canTriggerTransfer(
             ev.topLevelType, ev.targetInst, ev.nativeEvent,
             trackTouchCount(ev.topLevelType, trackedTouchCount).count)
  IN UNION
       {LET wants ==
              shouldSetQuery(responderInst, ev.targetInst, shouldSet).inst
            grants == negotiates /\ ~noCandidate(wants, responderInst)
        IN {[shouldSet |-> shouldSet, onResponderGrant |-> grant,
             onResponderTerminationRequest |-> request] :
              grant \in IF grants THEN Answers ELSE {NoListener},
              request \in IF grants /\ responderInst # NoInst
                          THEN {NoListener, "falsy", "truthy"}
                          ELSE {NoListener}} :
          shouldSet \in IF negotiates THEN ShouldSetTables[ev.targetInst]
                        ELSE {NoListeners(SlotsOf(ev.targetInst))}}

\* One native event: the platform raises it and the plugin extracts from it.
ExtractEvents ==
  /\ pc = "idle"
  /\ GlobalResponderHandler /\ GlobalInteractionHandler
  /\ \E ev \in NativeEvents :
       /\ isStartish(ev.topLevelType) => trackedTouchCount < MaxTrackedTouches
       /\ \E props \in PropsFor(ev) :
            \E r \in {extractEvents(ev.topLevelType, ev.targetInst,
                                    ev.nativeEvent, props)} :
               /\ call' =
                    [topLevelType |-> ev.topLevelType,
                     targetInst |-> ev.targetInst,
                     nativeEvent |-> ev.nativeEvent,
                     props |-> props,
                     responderInst |-> responderInst,
                     trackedTouchCount |-> trackedTouchCount,
                     numberActiveTouches |-> numberActiveTouches,
                     previousActiveTouches |-> previousActiveTouches]
               /\ touches' = ev.touches
               /\ responderInst' = r.responderInst
               /\ trackedTouchCount' = r.trackedTouchCount
               /\ numberActiveTouches' = r.numberActiveTouches
               /\ previousActiveTouches' = r.previousActiveTouches
               /\ extracted' = r.extracted
               /\ dropped' = r.dropped
               /\ queried' = r.queried
               /\ onDemand' = r.onDemand
               /\ responderChanges' = r.responderChanges
               /\ interactionChanges' = r.interactionChanges
  /\ pc' = "extracted"
  /\ UNCHANGED <<GlobalResponderHandler, GlobalInteractionHandler, holders,
                 frame, raised, otherVars>>

\* the instances that hold responder status once the events are delivered:
\* a grant gives it, a terminate or a release takes it away
RECURSIVE deliver(_, _)
deliver(held, events) ==
  IF events = <<>> THEN held
  ELSE LET e == Head(events)
       IN deliver(
            IF e.dispatchConfig = "onResponderGrant"
            THEN held \cup {e.targetInst}
            ELSE IF e.dispatchConfig \in {"onResponderTerminate",
                                          "onResponderRelease"}
            THEN held \ {e.targetInst}
            ELSE held,
            Tail(events))

\* The hub delivers what extractEvents returned, in order, before the next
\* native event is handled.
runEventsInBatch ==
  /\ pc = "extracted"
  /\ holders' = deliver(holders, extracted)
  /\ pc' = "idle"
  /\ call' = NoCall
  /\ extracted' = <<>>
  /\ dropped' = FALSE
  /\ queried' = FALSE
  /\ onDemand' = <<>>
  /\ responderChanges' = <<>>
  /\ interactionChanges' = <<>>
  /\ frame' = NoFrame
  /\ UNCHANGED <<responderInst, trackedTouchCount, previousActiveTouches,
                 numberActiveTouches, GlobalResponderHandler,
                 GlobalInteractionHandler, touches, raised, otherVars>>

Next ==
  \/ injectGlobalResponderHandler
  \/ injectGlobalInteractionHandler
  \/ ExtractEvents
  \/ runEventsInBatch

Spec == Init /\ [][Next]_vars

\* ------------------------------------------------ re-entrant extraction

\* An extractEvents call taken one handler at a time.  The call stops while
\* a handler or a hook it invoked is running; the handler may raise a native
\* event, which the plugin extracts from and the hub delivers before the
\* handler returns; then the handler returns and the call goes on, reading
\* the plugin's variables as they then are.

\* a handler of one call raises at most this many native events
MaxNested == 1

\* the native events raised where handlers raise some, at most
MaxEvents == 3

\* the variables a call under way reads and writes after its first lines
Current ==
  [responderInst |-> responderInst,
   numberActiveTouches |-> numberActiveTouches,
   previousActiveTouches |-> previousActiveTouches,
   extracted |-> extracted,
   responderChanges |-> responderChanges,
   interactionChanges |-> interactionChanges,
   frame |-> frame]

\* the call stops in a handler
stopAt(m, at) == [m EXCEPT !.frame.at = at]

\* `previousActiveTouches = numberActiveTouches; return extracted`
leaveExtract(m) ==
  [m EXCEPT !.previousActiveTouches = m.frame.active, !.frame.at = "none"]

\* the end of extractEvents: the interaction hook is called when the number
\* of active touches is not the one last reported
reportInteraction(m) ==
  LET active == m.numberActiveTouches
      calls == interactionOnChange(active, m.previousActiveTouches)
      m1 == [m EXCEPT !.frame.active = active,
                      !.interactionChanges = @ \o calls]
  IN IF calls # <<>> THEN stopAt(m1, "interactionHook") ELSE leaveExtract(m1)

\* changeResponder called from site: the responder is written, then the
\* responder hook is called
callChangeResponder(m, nextResponderInst, block, site) ==
  LET st == changeResponder([responderInst |-> m.responderInst,
                             onChange |-> m.responderChanges],
                            nextResponderInst, block)
  IN [m EXCEPT !.responderInst = st.responderInst,
               !.responderChanges = st.onChange,
               !.frame.site = site]

\* the incremental and the terminal event for whoever is responder now
touchStage(m) ==
  LET type == m.frame.topLevelType
      incremental == incrementalTouch(type, m.responderInst)
      extracted1 ==
        IF incremental # "null"
        THEN accumulate(m.extracted,
                        <<getPooled(incremental, m.responderInst)>>)
        ELSE m.extracted
      final == finalTouch(type, m.frame.nativeEvent, m.responderInst)
      extracted2 ==
        IF final # "null"
        THEN accumulate(extracted1, <<getPooled(final, m.responderInst)>>)
        ELSE extracted1
      m2 == [m EXCEPT !.extracted = extracted2]
  IN IF final # "null"
     THEN IF GlobalResponderHandler
          THEN stopAt(callChangeResponder(m2, NoInst, "undefined", "final"),
                      "responderHook")
          ELSE reportInteraction(
                 callChangeResponder(m2, NoInst, "undefined", "final"))
     ELSE reportInteraction(m2)

\* `changeResponder(wantsResponderInst, blockHostResponder)` at the end of
\* setResponderAndExtractTransfer
switchResponder(m) ==
  LET m1 == callChangeResponder(m, m.frame.wants, m.frame.block, "transfer")
  IN IF GlobalResponderHandler THEN stopAt(m1, "responderHook")
     ELSE touchStage(m1)

\* setResponderAndExtractTransfer once the termination request is answered:
\* the terminate event is for the responder of that moment
afterTerminationRequest(m, requestAnswer) ==
  IF shouldSwitch(requestAnswer)
  THEN switchResponder(
         [m EXCEPT !.extracted =
            accumulate(@, transferEvents(m.frame.wants, m.responderInst))])
  ELSE touchStage(
         [m EXCEPT !.extracted =
            accumulate(@, <<getPooled("onResponderReject", m.frame.wants)>>)])

\* setResponderAndExtractTransfer once the grant is dispatched; listens says
\* which of the listeners the call looks up next are registered
afterGrant(m, grantAnswer, listens) ==
  LET m1 == [m EXCEPT !.frame.block = blockHostResponder(grantAnswer)]
  IN IF m1.responderInst # NoInst
     THEN IF listens.onResponderTerminationRequest
          THEN stopAt(m1, "onResponderTerminationRequest")
          ELSE afterTerminationRequest(m1, NoListener)
     ELSE switchResponder(
            [m1 EXCEPT !.extracted =
               accumulate(@, <<getPooled("onResponderGrant", m1.frame.wants)>>)])

\* setResponderAndExtractTransfer once the should-set query has its result
afterQuery(m, wantsResponderInst, listens) ==
  IF noCandidate(wantsResponderInst, m.responderInst)
  THEN touchStage(m)
  ELSE LET m1 == [m EXCEPT !.frame.wants = wantsResponderInst]
       IN IF listens.onResponderGrant THEN stopAt(m1, "onResponderGrant")
          ELSE afterGrant(m1, NoListener, listens)

\* executeDispatchesInOrderStopAtTrue about to invoke the next listener
nextShouldSet(m, listens) ==
  IF m.frame.pending = <<>> THEN afterQuery(m, NoInst, listens)
  ELSE stopAt(m, "shouldSet")

\* the should-set listener that was running returns
returnShouldSet(m, ret, listens) ==
  IF isTruthy(ret) THEN afterQuery(m, Head(m.frame.pending)[1], listens)
  ELSE nextShouldSet([m EXCEPT !.frame.pending = Tail(@)], listens)

\* the responder hook returns to the changeResponder call that called it
returnResponderHook(m) ==
  IF m.frame.site = "transfer" THEN touchStage(m) ELSE reportInteraction(m)

\* extractEvents up to the first handler it invokes, the count bookkeeping
\* done: the touch is recorded and the should-set event is accumulated
enterExtract(ev, count, shouldSet, listens) ==
  LET m == [Current EXCEPT
              !.numberActiveTouches =
                 recordTouchTrack(ev.topLevelType, ev.nativeEvent, @),
              !.extracted = <<>>,
              !.frame = [NoFrame EXCEPT !.topLevelType = ev.topLevelType,
                                        !.targetInst = ev.targetInst,
                                        !.nativeEvent = ev.nativeEvent]]
  IN IF canTriggerTransfer(ev.topLevelType, ev.targetInst, ev.nativeEvent,
                           count)
     THEN nextShouldSet(
            [m EXCEPT !.frame.pending =
               shouldSetDispatches(m.responderInst, ev.targetInst, shouldSet)],
            listens)
     ELSE touchStage(m)

\* which of the grant and termination-request listeners are registered
Listens ==
  [{"onResponderGrant", "onResponderTerminationRequest"} -> BOOLEAN]

\* the call under way goes on to m
GoOn(m) ==
  /\ responderInst' = m.responderInst
  /\ numberActiveTouches' = m.numberActiveTouches
  /\ previousActiveTouches' = m.previousActiveTouches
  /\ extracted' = m.extracted
  /\ responderChanges' = m.responderChanges
  /\ interactionChanges' = m.interactionChanges
  /\ frame' = m.frame
  /\ pc' = IF m.frame.at = "none" THEN "extracted" ELSE "inside"

\* The platform raises a native event and extractEvents starts on it.
BeginExtract ==
  /\ pc = "idle"
  /\ GlobalResponderHandler /\ GlobalInteractionHandler
  /\ raised < MaxEvents
  /\ raised' = raised + 1
  /\ \E ev \in NativeEvents :
       /\ isStartish(ev.topLevelType) => trackedTouchCount < MaxTrackedTouches
       /\ LET tracked == trackTouchCount(ev.topLevelType, trackedTouchCount)
          IN /\ trackedTouchCount' = tracked.count
             /\ dropped' = tracked.dropped
             /\ IF tracked.dropped
                THEN GoOn([Current EXCEPT !.extracted = <<>>])
                ELSE \E shouldSet \in ShouldSetTables[ev.targetInst],
                        listens \in Listens :
                       GoOn(enterExtract(ev, tracked.count, shouldSet, listens))
       /\ call' = [NoCall EXCEPT !.topLevelType = ev.topLevelType,
                                 !.targetInst = ev.targetInst,
                                 !.responderInst = responderInst,
                                 !.trackedTouchCount = trackedTouchCount]
       /\ touches' = ev.touches
  /\ UNCHANGED <<GlobalResponderHandler, GlobalInteractionHandler, holders,
                 queried, onDemand, otherVars>>

\* The handler that is running raises a native event: the plugin extracts
\* from it and the hub delivers the events, all before the handler returns.
\* The handlers of that call raise no event themselves.
NestedExtract ==
  /\ pc = "inside"
  /\ Len(frame.nested) < MaxNested
  /\ raised < MaxEvents
  /\ raised' = raised + 1
  /\ \E ev \in NativeEvents :
       /\ isStartish(ev.topLevelType) => trackedTouchCount < MaxTrackedTouches
       /\ \E props \in PropsFor(ev) :
            \E r \in {extractEvents(ev.topLevelType, ev.targetInst,
                                    ev.nativeEvent, props)} :
               /\ touches' = ev.touches
               /\ responderInst' = r.responderInst
               /\ trackedTouchCount' = r.trackedTouchCount
               /\ numberActiveTouches' = r.numberActiveTouches
               /\ previousActiveTouches' = r.previousActiveTouches
               /\ responderChanges' = responderChanges \o r.responderChanges
               /\ interactionChanges' =
                    interactionChanges \o r.interactionChanges
               /\ holders' = deliver(holders, r.extracted)
               /\ frame' = [frame EXCEPT
                              !.nested = Append(@, ev.topLevelType)]
  /\ UNCHANGED <<GlobalResponderHandler, GlobalInteractionHandler, pc, call,
                 extracted, dropped, queried, onDemand, otherVars>>

\* what a handler's return leaves alone
ReturnUnchanged ==
  UNCHANGED <<trackedTouchCount, GlobalResponderHandler,
              GlobalInteractionHandler, touches, holders, call, dropped,
              queried, onDemand, raised, otherVars>>

\* The should-set listener that is running returns.
ReturnShouldSet ==
  /\ pc = "inside" /\ frame.at = "shouldSet"
  /\ \E ret \in {"falsy", "true"}, listens \in Listens :
       GoOn(returnShouldSet(Current, ret, listens))
  /\ ReturnUnchanged

\* The grant listener of the candidate returns.
ReturnGrant ==
  /\ pc = "inside" /\ frame.at = "onResponderGrant"
  /\ \E ret \in ReturnValues, listens \in Listens :
       GoOn(afterGrant(Current, ret, listens))
  /\ ReturnUnchanged

\* The termination-request listener of the responder returns.
ReturnTerminationRequest ==
  /\ pc = "inside" /\ frame.at = "onResponderTerminationRequest"
  /\ \E ret \in {"falsy", "truthy"} :
       GoOn(afterTerminationRequest(Current, ret))
  /\ ReturnUnchanged

\* GlobalResponderHandler.onChange returns.
ReturnResponderHook ==
  /\ pc = "inside" /\ frame.at = "responderHook"
  /\ GoOn(returnResponderHook(Current))
  /\ ReturnUnchanged

\* GlobalInteractionHandler.onChange returns.
ReturnInteractionHook ==
  /\ pc = "inside" /\ frame.at = "interactionHook"
  /\ GoOn(leaveExtract(Current))
  /\ ReturnUnchanged

NextReentrant ==
  \/ injectGlobalResponderHandler
  \/ injectGlobalInteractionHandler
  \/ BeginExtract
  \/ NestedExtract
  \/ ReturnShouldSet
  \/ ReturnGrant
  \/ ReturnTerminationRequest
  \/ ReturnResponderHook
  \/ ReturnInteractionHook
  \/ runEventsInBatch

SpecReentrant == Init /\ [][NextReentrant]_vars

\* ------------------------------------------------- SimpleEventPlugin

\* [top-level type, registration name] of the interactive events
interactiveEventTypeNames ==
  {<<"TOP_BLUR", "onBlur">>, <<"TOP_CANCEL", "onCancel">>,
   <<"TOP_CLICK", "onClick">>, <<"TOP_CLOSE", "onClose">>,
   <<"TOP_CONTEXT_MENU", "onContextMenu">>, <<"TOP_COPY", "onCopy">>,
   <<"TOP_CUT", "onCut">>, <<"TOP_DOUBLE_CLICK", "onDoubleClick">>,
   <<"TOP_DRAG_END", "onDragEnd">>, <<"TOP_DRAG_START", "onDragStart">>,
   <<"TOP_DROP", "onDrop">>, <<"TOP_FOCUS", "onFocus">>,
   <<"TOP_INPUT", "onInput">>, <<"TOP_INVALID", "onInvalid">>,
   <<"TOP_KEY_DOWN", "onKeyDown">>, <<"TOP_KEY_PRESS", "onKeyPress">>,
   <<"TOP_KEY_UP", "onKeyUp">>, <<"TOP_MOUSE_DOWN", "onMouseDown">>,
   <<"TOP_MOUSE_UP", "onMouseUp">>, <<"TOP_PASTE", "onPaste">>,
   <<"TOP_PAUSE", "onPause">>, <<"TOP_PLAY", "onPlay">>,
   <<"TOP_RATE_CHANGE", "onRateChange">>, <<"TOP_RESET", "onReset">>,
   <<"TOP_SEEKED", "onSeeked">>, <<"TOP_SUBMIT", "onSubmit">>,
   <<"TOP_TOUCH_CANCEL", "onTouchCancel">>,
   <<"TOP_TOUCH_END", "onTouchEnd">>, <<"TOP_TOUCH_START", "onTouchStart">>,
   <<"TOP_VOLUME_CHANGE", "onVolumeChange">>}

\* [top-level type, registration name] of the other events
nonInteractiveEventTypeNames ==
  {<<"TOP_ABORT", "onAbort">>, <<"TOP_ANIMATION_END", "onAnimationEnd">>,
   <<"TOP_ANIMATION_ITERATION", "onAnimationIteration">>,
   <<"TOP_ANIMATION_START", "onAnimationStart">>,
   <<"TOP_CAN_PLAY", "onCanPlay">>,
   <<"TOP_CAN_PLAY_THROUGH", "onCanPlayThrough">>, <<"TOP_DRAG", "onDrag">>,
   <<"TOP_DRAG_ENTER", "onDragEnter">>, <<"TOP_DRAG_EXIT", "onDragExit">>,
   <<"TOP_DRAG_LEAVE", "onDragLeave">>, <<"TOP_DRAG_OVER", "onDragOver">>,
   <<"TOP_DURATION_CHANGE", "onDurationChange">>,
   <<"TOP_EMPTIED", "onEmptied">>, <<"TOP_ENCRYPTED", "onEncrypted">>,
   <<"TOP_ENDED", "onEnded">>, <<"TOP_ERROR", "onError">>,
   <<"TOP_LOAD", "onLoad">>, <<"TOP_LOADED_DATA", "onLoadedData">>,
   <<"TOP_LOADED_METADATA", "onLoadedMetadata">>,
   <<"TOP_LOAD_START", "onLoadStart">>, <<"TOP_MOUSE_MOVE", "onMouseMove">>,
   <<"TOP_MOUSE_OUT", "onMouseOut">>, <<"TOP_MOUSE_OVER", "onMouseOver">>,
   <<"TOP_PLAYING", "onPlaying">>, <<"TOP_PROGRESS", "onProgress">>,
   <<"TOP_SCROLL", "onScroll">>, <<"TOP_SEEKING", "onSeeking">>,
   <<"TOP_STALLED", "onStalled">>, <<"TOP_SUSPEND", "onSuspend">>,
   <<"TOP_TIME_UPDATE", "onTimeUpdate">>, <<"TOP_TOGGLE", "onToggle">>,
   <<"TOP_TOUCH_MOVE", "onTouchMove">>,
   <<"TOP_TRANSITION_END", "onTransitionEnd">>,
   <<"TOP_WAITING", "onWaiting">>, <<"TOP_WHEEL", "onWheel">>}

\* the dispatch configuration addEventTypeNameToConfig builds for a tuple
addEventTypeNameToConfig(eventTuple, isInteractive) ==
  [phasedRegistrationNames |->
     [bubbled |-> eventTuple[2], captured |-> eventTuple[2] \o "Capture"],
   dependencies |-> {eventTuple[1]},
   isInteractive |-> isInteractive]

\* the top-level types the two lists give a configuration
ConfiguredTypes ==
  {eventTuple[1] :
     eventTuple \in interactiveEventTypeNames \cup nonInteractiveEventTypeNames}

\* topLevelEventsToDispatchConfig once both lists are added, the interactive
\* one first
topLevelEventsToDispatchConfig ==
  [type \in ConfiguredTypes |->
     IF \E eventTuple \in nonInteractiveEventTypeNames : eventTuple[1] = type
     THEN addEventTypeNameToConfig(
            CHOOSE eventTuple \in nonInteractiveEventTypeNames :
              eventTuple[1] = type,
            FALSE)
     ELSE addEventTypeNameToConfig(
            CHOOSE eventTuple \in interactiveEventTypeNames :
              eventTuple[1] = type,
            TRUE)]

\* top-level types of the DOM the plugin has no configuration for
OtherTopLevelTypes ==
  {"TOP_CHANGE", "TOP_SELECTION_CHANGE", "TOP_COMPOSITION_START",
   "TOP_COMPOSITION_UPDATE", "TOP_COMPOSITION_END", "TOP_TEXT_INPUT"}

DOMTopLevelEventTypes == ConfiguredTypes \cup OtherTopLevelTypes

\* the types the development build knows to have no constructor of their own
knownHTMLTopLevelTypes ==
  {"TOP_ABORT", "TOP_CANCEL", "TOP_CAN_PLAY", "TOP_CAN_PLAY_THROUGH",
   "TOP_CLOSE", "TOP_DURATION_CHANGE", "TOP_EMPTIED", "TOP_ENCRYPTED",
   "TOP_ENDED", "TOP_ERROR", "TOP_INPUT", "TOP_INVALID", "TOP_LOAD",
   "TOP_LOADED_DATA", "TOP_LOADED_METADATA", "TOP_LOAD_START", "TOP_PAUSE",
   "TOP_PLAY", "TOP_PLAYING", "TOP_PROGRESS", "TOP_RATE_CHANGE", "TOP_RESET",
   "TOP_SEEKED", "TOP_SEEKING", "TOP_STALLED", "TOP_SUBMIT", "TOP_SUSPEND",
   "TOP_TIME_UPDATE", "TOP_TOGGLE", "TOP_VOLUME_CHANGE", "TOP_WAITING"}

\* the switch of extractEvents: the constructor for a top-level type
EventConstructor(topLevelType) ==
  IF topLevelType \in
       {"TOP_KEY_PRESS", "TOP_KEY_DOWN", "TOP_KEY_UP"}
  THEN "SyntheticKeyboardEvent"
  ELSE IF topLevelType \in
       {"TOP_BLUR", "TOP_FOCUS"}
  THEN "SyntheticFocusEvent"
  ELSE IF topLevelType \in
       {"TOP_CLICK", "TOP_DOUBLE_CLICK", "TOP_MOUSE_DOWN", "TOP_MOUSE_MOVE",
       "TOP_MOUSE_UP", "TOP_MOUSE_OUT", "TOP_MOUSE_OVER", "TOP_CONTEXT_MENU"}
  THEN "SyntheticMouseEvent"
  ELSE IF topLevelType \in
       {"TOP_DRAG", "TOP_DRAG_END", "TOP_DRAG_ENTER", "TOP_DRAG_EXIT",
       "TOP_DRAG_LEAVE", "TOP_DRAG_OVER", "TOP_DRAG_START", "TOP_DROP"}
  THEN "SyntheticDragEvent"
  ELSE IF topLevelType \in
       {"TOP_TOUCH_CANCEL", "TOP_TOUCH_END", "TOP_TOUCH_MOVE",
       "TOP_TOUCH_START"}
  THEN "SyntheticTouchEvent"
  ELSE IF topLevelType \in
       {"TOP_ANIMATION_END", "TOP_ANIMATION_ITERATION", "TOP_ANIMATION_START"}
  THEN "SyntheticAnimationEvent"
  ELSE IF topLevelType \in
       {"TOP_TRANSITION_END"}
  THEN "SyntheticTransitionEvent"
  ELSE IF topLevelType \in
       {"TOP_SCROLL"}
  THEN "SyntheticUIEvent"
  ELSE IF topLevelType \in
       {"TOP_WHEEL"}
  THEN "SyntheticWheelEvent"
  ELSE IF topLevelType \in
       {"TOP_COPY", "TOP_CUT", "TOP_PASTE"}
  THEN "SyntheticClipboardEvent"
  ELSE "SyntheticEvent"

\* what the plugin reads of the native event: getEventCharCode(nativeEvent)
\* and nativeEvent.button
CharCodes == {0, 13, 97}
Buttons == {0, 1, 2}

\* the event a constructor's getPooled gives, its two-phase dispatches
\* accumulated
simpleGetPooled(constructor, dispatchConfig) ==
  [EventConstructor |-> constructor, dispatchConfig |-> dispatchConfig,
   accumulated |-> TRUE]

\* an extraction that does not look the type up
simpleExtractEventsNoLookup(topLevelType, charCode, button) ==
  <<simpleGetPooled(
      EventConstructor(topLevelType),
      IF topLevelType \in DOMAIN topLevelEventsToDispatchConfig
      THEN topLevelEventsToDispatchConfig[topLevelType]
      ELSE addEventTypeNameToConfig(<<topLevelType, "on">>, FALSE))>>

\* an extraction that gives every event the mouse constructor
simpleExtractEventsAllMouse(topLevelType, charCode, button) ==
  IF topLevelType \notin DOMAIN topLevelEventsToDispatchConfig THEN <<>>
  ELSE <<simpleGetPooled("SyntheticMouseEvent",
                         topLevelEventsToDispatchConfig[topLevelType])>>

\* an extraction that lets every keypress and click through
simpleExtractEventsNoFilter(topLevelType, charCode, button) ==
  IF topLevelType \notin DOMAIN topLevelEventsToDispatchConfig THEN <<>>
  ELSE <<simpleGetPooled(EventConstructor(topLevelType),
                         topLevelEventsToDispatchConfig[topLevelType])>>

\* SimpleEventPlugin.extractEvents: the events returned, none for null
simpleExtractEvents(topLevelType, charCode, button) ==
  IF topLevelType \notin DOMAIN topLevelEventsToDispatchConfig THEN <<>>
  ELSE IF topLevelType = "TOP_KEY_PRESS" /\ charCode = 0 THEN <<>>
  ELSE IF topLevelType = "TOP_CLICK" /\ button = 2 THEN <<>>
  ELSE <<simpleGetPooled(EventConstructor(topLevelType),
                         topLevelEventsToDispatchConfig[topLevelType])>>

\* a default branch that warns without consulting knownHTMLTopLevelTypes
unhandledWarningNoKnownList(topLevelType, charCode, button) ==
  /\ simpleExtractEvents(topLevelType, charCode, button) # <<>>
  /\ EventConstructor(topLevelType) = "SyntheticEvent"

\* the default branch of the switch in a development build: the call warns
\* 'Unhandled event type' when it gets there with a type that
\* knownHTMLTopLevelTypes does not list
unhandledWarning(topLevelType, charCode, button) ==
  /\ simpleExtractEvents(topLevelType, charCode, button) # <<>>
  /\ EventConstructor(topLevelType) = "SyntheticEvent"
  /\ topLevelType \notin knownHTMLTopLevelTypes

\* The hub passes a native event to SimpleEventPlugin.extractEvents.
SimpleExtractEvents ==
  /\ \E topLevelType \in DOMTopLevelEventTypes, charCode \in CharCodes,
        button \in Buttons :
       simple' = [topLevelType |-> topLevelType, charCode |-> charCode,
                  button |-> button,
                  result |-> simpleExtractEvents(topLevelType, charCode,
                                                 button),
                  warned |-> unhandledWarning(topLevelType, charCode,
                                              button)]
  /\ UNCHANGED <<responderVars, synthetic, dispatch, pool,
                 tally, element>>

NextSimple == SimpleExtractEvents

SpecSimple == Init /\ [][NextSimple]_vars

\* ------------------------------------------------------ SyntheticEvent
\* createSyntheticEventCreator: a native event is its prototype chain, each
\* object the sequence of its own enumerable keys (Object.keys), together
\* with what the creator reads of it.  Values are strings; Falsy are the ones
\* JavaScript takes for false.

\* the bound of the property walk
MaxDepth == 10

PropNames == {"target", "type", "deltaX", "preventDefault"}

Falsy(v) == v \in {"undefined", "null", "0", "false"}

\* own keys of the native event itself
OwnKeys ==
  {<<>>, <<"type">>, <<"type", "deltaX">>, <<"preventDefault", "type">>,
   <<"target", "type">>}

\* the prototype that declares target, if the chain has one
TargetPrototypes ==
  {<<>>, <<<<"target">>>>, <<<<"type", "target", "preventDefault">>>>}

\* the event, then k prototypes without enumerable keys, then the prototype
\* with target or none; after the last object getPrototypeOf gives null
NativeChains ==
  {<<own>> \o [i \in 1..k |-> <<>>] \o last :
     own \in OwnKeys, k \in 0..MaxPrototypes, last \in TargetPrototypes}

\* nativeEvent[propName] for the names the walk can collect
RawValue(propName) ==
  CASE propName = "target" -> "rawTarget"
    [] propName = "type" -> "click"
    [] propName = "deltaX" -> "0"
    [] propName = "preventDefault" -> "nativeFunction"

\* a normalizer entry: none, a function, a truthy or a falsy constant
EntryKinds == {"none", "function", "constant", "falsy"}

Normalizers ==
  {[n \in PropNames |-> IF n = m THEN k ELSE "none"] :
     m \in PropNames, k \in EntryKinds}

\* how the native event suppresses: its own methods, the legacy fields
\* returnValue and cancelBubble, or fields whose typeof is 'unknown'
NativeStyles == {"standard", "legacy", "unknown"}

\* getPropertiesForEvent: the loop from its j-th round on
RECURSIVE getPropertiesWalk(_, _, _, _)
getPropertiesWalk(chain, j, includedAllKeys, properties) ==
  IF ~includedAllKeys /\ j < MaxDepth
  THEN IF j + 1 > Len(chain)
       THEN [threw |-> "TypeError", properties |-> properties, j |-> j]
       ELSE LET keys == chain[j + 1]
            IN  getPropertiesWalk(chain, j + 1, "target" \in SeqRange(keys),
                                  properties \o keys)
  ELSE IF j >= MaxDepth
       THEN [threw |-> "Error", properties |-> properties, j |-> j]
       ELSE [threw |-> "none", properties |-> properties, j |-> j]

getPropertiesForEvent(chain) == getPropertiesWalk(chain, 0, FALSE, <<>>)

\* the fields the object literal sets that a collected name can meet
BuiltIn ==
  [n \in {"preventDefault"} |-> "syntheticFunction"]

Has(fields, propName) ==
  propName \in DOMAIN fields /\ ~Falsy(fields[propName])

Put(fields, propName, v) ==
  [n \in DOMAIN fields \cup {propName} |->
     IF n = propName THEN v ELSE fields[n]]

\* the property loop of createSyntheticCreator from its i-th name on
RECURSIVE copyProperties(_, _, _, _, _)
copyProperties(fields, properties, i, normalizer, nativeEventTarget) ==
  IF i > Len(properties) THEN [threw |-> "none", fields |-> fields]
  ELSE LET propName == properties[i]
           normalize == normalizer[propName]
       IN  IF Has(fields, propName)
           THEN copyProperties(fields, properties, i + 1, normalizer,
                               nativeEventTarget)
           ELSE IF normalize = "function"
           THEN copyProperties(Put(fields, propName, "normalized"),
                               properties, i + 1, normalizer,
                               nativeEventTarget)
           ELSE IF normalize = "constant"
           THEN [threw |-> "TypeError", fields |-> fields]
           ELSE IF propName = "target"
           THEN copyProperties(Put(fields, propName, nativeEventTarget),
                               properties, i + 1, normalizer,
                               nativeEventTarget)
           ELSE copyProperties(Put(fields, propName, RawValue(propName)),
                               properties, i + 1, normalizer,
                               nativeEventTarget)

\* nativeEvent.defaultPrevented != null ? it : nativeEvent.returnValue === false
defaultPreventedOf(nativeDefaultPrevented, returnValue) ==
  IF nativeDefaultPrevented # "undefined"
  THEN nativeDefaultPrevented = "true"
  ELSE returnValue = "false"

\* the native event as the synthetic event's methods read and write it
NativeOf(nativeDefaultPrevented, returnValue, style) ==
  [defaultPrevented |-> nativeDefaultPrevented, returnValue |-> returnValue,
   cancelBubble |-> "undefined", propagationStopped |-> FALSE,
   style |-> style]

\* a creator whose property loop asks for target before the normalizer
createSyntheticCreatorTargetFirst(normalizer, chain, native, nativeEventTarget) ==
  LET walk == getPropertiesForEvent(chain)
      copied == copyProperties(BuiltIn, walk.properties, 1,
                    [normalizer EXCEPT !["target"] = "none"],
                    nativeEventTarget)
  IN  [created |-> TRUE, normalizer |-> normalizer, chain |-> chain,
       nativeEventTarget |-> nativeEventTarget,
       threw |-> IF walk.threw # "none" THEN walk.threw ELSE copied.threw,
       walked |-> walk.threw,
       inspected |-> walk.j,
       properties |-> walk.properties,
       fields |-> IF walk.threw # "none" THEN BuiltIn ELSE copied.fields,
       nativeEvent |-> TRUE,
       isDefaultPrevented |->
         defaultPreventedOf(native.defaultPrevented, native.returnValue),
       isPropagationStopped |-> FALSE,
       defaultPrevented |-> "unset",
       native |-> native,
       last |-> "none"]

\* createSyntheticCreator: the event it returns, or what it threw
createSyntheticCreator(normalizer, chain, native, nativeEventTarget) ==
  LET walk == getPropertiesForEvent(chain)
      copied == copyProperties(BuiltIn, walk.properties, 1, normalizer,
                               nativeEventTarget)
  IN  [created |-> TRUE, normalizer |-> normalizer, chain |-> chain,
       nativeEventTarget |-> nativeEventTarget,
       threw |-> IF walk.threw # "none" THEN walk.threw ELSE copied.threw,
       walked |-> walk.threw,
       inspected |-> walk.j,
       properties |-> walk.properties,
       fields |-> IF walk.threw # "none" THEN BuiltIn ELSE copied.fields,
       nativeEvent |-> TRUE,
       isDefaultPrevented |->
         defaultPreventedOf(native.defaultPrevented, native.returnValue),
       isPropagationStopped |-> FALSE,
       defaultPrevented |-> "unset",
       native |-> native,
       last |-> "none"]

\* a preventDefault that sets the flag only when the native event has the
\* method
preventDefaultNativeOnly(ev) ==
  LET this == [ev EXCEPT !.defaultPrevented = "true",
                         !.last = "preventDefault"]
  IN  IF this.native.style = "standard"
      THEN [this EXCEPT !.native.defaultPrevented = "true",
                        !.isDefaultPrevented = TRUE]
      ELSE this

\* syntheticEvent.preventDefault
preventDefault(ev) ==
  LET this == [ev EXCEPT !.defaultPrevented = "true",
                         !.last = "preventDefault"]
  IN  IF ~this.nativeEvent THEN this
      ELSE IF this.native.style = "standard"
      THEN [this EXCEPT !.native.defaultPrevented = "true",
                        !.isDefaultPrevented = TRUE]
      ELSE IF this.native.style # "unknown"
      THEN [this EXCEPT !.native.returnValue = "false",
                        !.isDefaultPrevented = TRUE]
      ELSE [this EXCEPT !.isDefaultPrevented = TRUE]

\* a stopPropagation that sets the flag only when the native event has the
\* method
stopPropagationNativeOnly(ev) ==
  LET this == [ev EXCEPT !.last = "stopPropagation"]
  IN  IF this.native.style = "standard"
      THEN [this EXCEPT !.native.propagationStopped = TRUE,
                        !.isPropagationStopped = TRUE]
      ELSE this

\* syntheticEvent.stopPropagation
stopPropagation(ev) ==
  LET this == [ev EXCEPT !.last = "stopPropagation"]
  IN  IF ~this.nativeEvent THEN this
      ELSE IF this.native.style = "standard"
      THEN [this EXCEPT !.native.propagationStopped = TRUE,
                        !.isPropagationStopped = TRUE]
      ELSE IF this.native.style # "unknown"
      THEN [this EXCEPT !.native.cancelBubble = "true",
                        !.isPropagationStopped = TRUE]
      ELSE [this EXCEPT !.isPropagationStopped = TRUE]

\* the creator is called once, for any native event and normalizer
CreateSyntheticEvent ==
  /\ ~synthetic.created
  /\ \E normalizer \in Normalizers, chain \in NativeChains,
        nativeDefaultPrevented \in {"undefined", "true", "false"},
        returnValue \in {"undefined", "false"}, style \in NativeStyles :
       /\ (\E i \in DOMAIN chain : "preventDefault" \in SeqRange(chain[i]))
            => style = "standard"
       /\ synthetic' =
            createSyntheticCreator(
              normalizer, chain,
              NativeOf(nativeDefaultPrevented, returnValue, style),
              "eventTarget")
  /\ UNCHANGED <<responderVars, simple, dispatch, pool,
                 tally, element>>

\* a handler calls event.preventDefault()
PreventDefault ==
  /\ synthetic.created /\ synthetic.threw = "none"
  /\ synthetic' = preventDefault(synthetic)
  /\ UNCHANGED <<responderVars, simple, dispatch, pool,
                 tally, element>>

\* a handler calls event.stopPropagation()
StopPropagation ==
  /\ synthetic.created /\ synthetic.threw = "none"
  /\ synthetic' = stopPropagation(synthetic)
  /\ UNCHANGED <<responderVars, simple, dispatch, pool,
                 tally, element>>

NextSynthetic == CreateSyntheticEvent \/ PreventDefault \/ StopPropagation

SpecSynthetic == Init /\ [][NextSynthetic]_vars

\* ---------------------------------------------------- dispatch executor
\* One extraction pass gives a two-phase event for a target and a direct
\* event for one instance; the executor delivers them in this order.  A
\* handler is absent, returns, or calls event.stopPropagation() and returns.

HandlerKinds == {"none", "returns", "stops"}

\* a synthetic event of the pass; the events of one pass share the native
\* event but each has its own propagation flag
PassEvent(style) ==
  createSyntheticCreator([n \in PropNames |-> "none"],
                         <<<<"target", "type">>>>,
                         NativeOf("undefined", "undefined", style),
                         "eventTarget")

\* the dispatch list of the two-phase event
twoPhaseDispatches(targetInst, handlers) ==
  SelectSeq(traverseTwoPhase(targetInst), LAMBDA d : handlers[d] # "none")

\* execute-all mode: every handler of the list in order; after an
\* invocation that left the event's propagation stopped, the rest is skipped
RECURSIVE executeDispatchesInOrder(_, _, _)
executeDispatchesInOrder(event, dispatches, handlers) ==
  IF dispatches = <<>> THEN [invoked |-> <<>>, event |-> event]
  ELSE LET d == Head(dispatches)
           after == IF handlers[d] = "stops" THEN stopPropagation(event)
                    ELSE event
       IN  IF after.isPropagationStopped
           THEN [invoked |-> <<d>>, event |-> after]
           ELSE LET rest == executeDispatchesInOrder(after, Tail(dispatches),
                                                     handlers)
                IN  [invoked |-> <<d>> \o rest.invoked, event |-> rest.event]

\* the direct event has the one handler of its instance, if any
executeDirect(event, inst, handler) ==
  IF handler = "none" THEN [invoked |-> <<>>, event |-> event]
  ELSE [invoked |-> <<inst>>,
        event |-> IF handler = "stops" THEN stopPropagation(event)
                  ELSE event]

\* the executor delivers the events of one pass
RunPass ==
  /\ ~dispatch.ran
  /\ \E targetInst \in Insts, directInst \in Insts,
        directHandler \in HandlerKinds, style \in NativeStyles :
       \E handlers \in [SlotsOf(targetInst) -> HandlerKinds] :
         LET dispatches == twoPhaseDispatches(targetInst, handlers)
             first == executeDispatchesInOrder(PassEvent(style), dispatches,
                                               handlers)
             second == executeDirect(PassEvent(style), directInst,
                                     directHandler)
         IN  dispatch' =
               [ran |-> TRUE, targetInst |-> targetInst,
                handlers |-> handlers, dispatches |-> dispatches,
                directInst |-> directInst, directHandler |-> directHandler,
                style |-> style,
                invoked |-> first.invoked,
                stopped |-> first.event.isPropagationStopped,
                directInvoked |-> second.invoked]
  /\ UNCHANGED <<responderVars, simple, synthetic, pool,
                 tally, element>>

NextDispatch == RunPass

SpecDispatch == Init /\ [][NextDispatch]_vars

\* ------------------------------------------------------- event pooling
\* The pooled event objects of one call of setResponderAndExtractTransfer.
\* An object is live from getPooled to release; the pool hands out the object
\* released last, or a new one when it is empty.  ops lists what the plugin
\* does to each object, with the object's condition at that moment.

FreeLists == {<<>>, <<1>>}

PoolOf(free) ==
  [free |-> free, next |-> Len(free) + 1, persistent |-> {}, last |-> 0,
   ops |-> <<>>]

\* the plugin touches obj: reads or writes a field or passes it on
poolUse(st, op, obj) ==
  [st EXCEPT !.ops = Append(@, [op |-> op, obj |-> obj,
                                live |-> obj \notin SeqRange(st.free),
                                persistent |-> obj \in st.persistent])]

\* ResponderSyntheticEvent.getPooled: st.last is the object handed out
poolGet(st) ==
  LET recycled == st.free # <<>>
      obj == IF recycled THEN st.free[Len(st.free)] ELSE st.next
      taken == [st EXCEPT !.free = IF recycled
                                   THEN SubSeq(@, 1, Len(@) - 1) ELSE @,
                          !.next = IF recycled THEN @ ELSE @ + 1,
                          !.persistent = @ \ {obj},
                          !.last = obj]
  IN  poolUse(taken, "getPooled", obj)

\* event.constructor.release(event)
poolRelease(st, obj) ==
  LET used == poolUse(st, "release", obj)
  IN  [used EXCEPT !.free = Append(@, obj)]

\* a dispatch of the event to handlers, one of which may call persist()
poolExecute(st, obj, persists) ==
  LET used == poolUse(st, "execute", obj)
  IN  [used EXCEPT !.persistent = IF persists THEN @ \cup {obj} ELSE @]

\* a release that does not ask isPersistent
releaseAlways(st, obj) == poolRelease(st, obj)

\* if (!event.isPersistent()) event.constructor.release(event)
releaseUnlessPersistent(st, obj) ==
  LET asked == poolUse(st, "isPersistent", obj)
  IN  IF obj \notin asked.persistent THEN poolRelease(asked, obj) ELSE asked

\* getPooled, the touchHistory assignment and the accumulation of one event
poolMake(st) ==
  LET got == poolGet(st)
  IN  poolUse(poolUse(got, "touchHistory", got.last), "accumulate", got.last)

\* setResponderAndExtractTransfer as the objects see it.  in: whether a
\* responder exists, who answered the query ("none", "responder", "other"),
\* whether handlers persisted the query and the request event, whether the
\* responder has a termination-request handler and what it answered.
pooledTransfer(in) ==
  LET s1 == poolMake(PoolOf(in.free))
      shouldSetEvent == s1.last
      s2 == releaseUnlessPersistent(
              poolExecute(s1, shouldSetEvent, in.shouldSetPersisted),
              shouldSetEvent)
  IN  IF in.wants = "none" \/ (in.wants = "responder" /\ in.responder)
      THEN [st |-> s2, extracted |-> <<>>, shouldSetEvent |-> shouldSetEvent,
            terminationRequestEvent |-> 0]
      ELSE
      LET s3 == poolMake(s2)
          grantEvent == s3.last
          s4 == poolExecute(s3, grantEvent, FALSE)
      IN  IF ~in.responder
          THEN [st |-> s4, extracted |-> <<grantEvent>>,
                shouldSetEvent |-> shouldSetEvent,
                terminationRequestEvent |-> 0]
          ELSE
          LET s5 == poolMake(s4)
              terminationRequestEvent == s5.last
              s6 == poolUse(s5, "hasDispatches", terminationRequestEvent)
              s7 == IF in.hasRequestHandler
                    THEN poolExecute(s6, terminationRequestEvent,
                                     in.requestPersisted)
                    ELSE s6
              shouldSwitchTo == ~in.hasRequestHandler \/ in.requestAnswer
              s8 == releaseUnlessPersistent(s7, terminationRequestEvent)
              s9 == poolMake(s8)
          IN  [st |-> s9,
               extracted |-> IF shouldSwitchTo THEN <<grantEvent, s9.last>>
                             ELSE <<s9.last>>,
               shouldSetEvent |-> shouldSetEvent,
               terminationRequestEvent |-> terminationRequestEvent]

\* one call of setResponderAndExtractTransfer
PooledTransfer ==
  /\ ~pool.ran
  /\ \E free \in FreeLists, responder \in BOOLEAN,
        wants \in {"none", "responder", "other"},
        shouldSetPersisted \in BOOLEAN, hasRequestHandler \in BOOLEAN,
        requestAnswer \in BOOLEAN, requestPersisted \in BOOLEAN :
       LET in == [free |-> free, responder |-> responder, wants |-> wants,
                  shouldSetPersisted |-> shouldSetPersisted,
                  hasRequestHandler |-> hasRequestHandler,
                  requestAnswer |-> requestAnswer,
                  requestPersisted |-> requestPersisted]
           out == pooledTransfer(in)
       IN  pool' = [ran |-> TRUE, in |-> in, free |-> out.st.free,
                    ops |-> out.st.ops, extracted |-> out.extracted,
                    shouldSetEvent |-> out.shouldSetEvent,
                    terminationRequestEvent |-> out.terminationRequestEvent]
  /\ UNCHANGED <<responderVars, simple, synthetic, dispatch,
                 tally, element>>

NextPool == PooledTransfer

SpecPool == Init /\ [][NextPool]_vars

\* ---------------------------------------------------- counted touches
\* extractEvents for mouse-downs, mouse-ups and selection changes on
\* instances without responder handlers, with a tally of the start-ish and
\* end-ish events passed to it; counted are the end-ish events that were not
\* dropped.

TalliedTypes == {"topMouseDown", "topMouseUp", "topSelectionChange"}

NoProps(inst) ==
  [shouldSet |-> NoListeners(SlotsOf(inst)), onResponderGrant |-> NoListener,
   onResponderTerminationRequest |-> NoListener]

tallyOf(topLevelType, isDropped) ==
  [starts |-> tally.starts + (IF isStartish(topLevelType) THEN 1 ELSE 0),
   ends |-> tally.ends + (IF isEndish(topLevelType) THEN 1 ELSE 0),
   counted |-> tally.counted
               + (IF isEndish(topLevelType) /\ ~isDropped THEN 1 ELSE 0)]

TalliedExtractEvents ==
  /\ pc = "idle"
  /\ GlobalResponderHandler /\ GlobalInteractionHandler
  /\ \E ev \in {e \in NativeEvents : e.topLevelType \in TalliedTypes} :
       /\ isStartish(ev.topLevelType) => trackedTouchCount < MaxTrackedTouches
       /\ (isStartish(ev.topLevelType) \/ isEndish(ev.topLevelType))
            => tally.starts + tally.ends < MaxTally
       /\ \E r \in {extractEvents(ev.topLevelType, ev.targetInst,
                                  ev.nativeEvent, NoProps(ev.targetInst))} :
            /\ call' =
                 [topLevelType |-> ev.topLevelType,
                  targetInst |-> ev.targetInst,
                  nativeEvent |-> ev.nativeEvent,
                  props |-> NoProps(ev.targetInst),
                  responderInst |-> responderInst,
                  trackedTouchCount |-> trackedTouchCount,
                  numberActiveTouches |-> numberActiveTouches,
                  previousActiveTouches |-> previousActiveTouches]
            /\ touches' = ev.touches
            /\ responderInst' = r.responderInst
            /\ trackedTouchCount' = r.trackedTouchCount
            /\ numberActiveTouches' = r.numberActiveTouches
            /\ previousActiveTouches' = r.previousActiveTouches
            /\ extracted' = r.extracted
            /\ dropped' = r.dropped
            /\ queried' = r.queried
            /\ onDemand' = r.onDemand
            /\ responderChanges' = r.responderChanges
            /\ interactionChanges' = r.interactionChanges
            /\ tally' = tallyOf(ev.topLevelType, r.dropped)
  /\ pc' = "extracted"
  /\ UNCHANGED <<GlobalResponderHandler, GlobalInteractionHandler, holders,
                 frame, raised, simple, synthetic, dispatch, pool, element>>

NextTally ==
  \/ injectGlobalResponderHandler
  \/ injectGlobalInteractionHandler
  \/ TalliedExtractEvents
  \/ runEventsInBatch

SpecTally == Init /\ [][NextTally]_vars

\* ------------------------------------------------------- updateListener
\* slim-events/updateListener.js: the handlers of a DOM element are kept on
\* the element, one pair of slots per native event name, and a proxy listener
\* is attached natively in their place.  Prop keys, node names and event
\* names are sequences of characters, so that the string conversions of the
\* code are computed.

BUBBLE_INDEX == 0
CAPTURE_INDEX == 1

onClick == <<"o", "n", "C", "l", "i", "c", "k">>
onClickCapture == onClick \o <<"C", "a", "p", "t", "u", "r", "e">>
onChange == <<"o", "n", "C", "h", "a", "n", "g", "e">>
onInput == <<"o", "n", "I", "n", "p", "u", "t">>

click == <<"c", "l", "i", "c", "k">>
change == <<"c", "h", "a", "n", "g", "e">>
input == <<"i", "n", "p", "u", "t">>

\* the prop keys updateListener is called with
PropKeys == {onClick, onClickCapture, onChange, onInput}

\* the native events dispatched on the element
EventNames == {click, change, input}

\* what is passed as nextProp: a handler, or "null" to remove the handler
NextProps == {"null", "h1", "h2"}

\* the elements: nodeName, type and disabled as the code reads them
Elements ==
  {[nodeName |-> <<"I", "N", "P", "U", "T">>, type |-> "text"],
   [nodeName |-> <<"I", "N", "P", "U", "T">>, type |-> "checkbox"],
   [nodeName |-> <<"D", "I", "V">>, type |-> "undefined"]}

\* String.prototype.toLowerCase on the letters that occur
toLowerCase(s) ==
  [k \in DOMAIN s |->
     CASE s[k] = "C" -> "c" [] s[k] = "D" -> "d" [] s[k] = "I" -> "i"
       [] s[k] = "N" -> "n" [] s[k] = "P" -> "p" [] s[k] = "T" -> "t"
       [] s[k] = "U" -> "u" [] s[k] = "V" -> "v" [] OTHER -> s[k]]

\* propKey.replace(/Capture$/, '')
replaceCapture(propKey) ==
  LET suffix == <<"C", "a", "p", "t", "u", "r", "e">>
  IN  IF /\ Len(propKey) >= Len(suffix)
         /\ SubSeq(propKey, Len(propKey) - Len(suffix) + 1, Len(propKey))
              = suffix
      THEN SubSeq(propKey, 1, Len(propKey) - Len(suffix))
      ELSE propKey

\* shouldUseChange(element)
shouldUseChange(el) ==
  /\ el.nodeName # <<>>
  /\ toLowerCase(el.nodeName) = input
  /\ el.type \in {"checkbox", "radio"}

\* nativeEventNameForPropKey(element, propKey)
nativeEventNameForPropKey(el, propKey) ==
  IF propKey = onChange
  THEN IF shouldUseChange(el) THEN change ELSE input
  ELSE IF propKey =
            <<"o", "n", "D", "o", "u", "b", "l", "e", "C", "l", "i", "c", "k">>
  THEN <<"d", "b", "l", "c", "l", "i", "c", "k">>
  ELSE SubSeq(toLowerCase(propKey), 3, Len(propKey))

\* the two proxies, each made by createEventProxy with its index
bubbleEventProxy == [proxy |-> "EventProxy", index |-> BUBBLE_INDEX]
captureEventProxy == [proxy |-> "EventProxy", index |-> CAPTURE_INDEX]

\* EventTarget.addEventListener: a listener with the same type, callback and
\* capture flag as one of the list is not added again
addEventListener(eventListeners, type, callback, capture) ==
  LET listener == [type |-> type, callback |-> callback, capture |-> capture]
  IN  IF \E k \in DOMAIN eventListeners : eventListeners[k] = listener
      THEN eventListeners
      ELSE Append(eventListeners, listener)

\* EventTarget.removeEventListener
removeEventListener(eventListeners, type, callback, capture) ==
  SelectSeq(eventListeners,
            LAMBDA l : l # [type |-> type, callback |-> callback,
                            capture |-> capture])

\* an update that keeps the handler a slot already has
updateListenerKeepsFirst(el, givenPropKey, nextProp) ==
  LET name == nativeEventNameForPropKey(el, replaceCapture(givenPropKey))
      listeners ==
        IF name \in DOMAIN el.listeners THEN el.listeners
        ELSE [n \in DOMAIN el.listeners \cup {name} |->
                IF n = name
                THEN [i \in {BUBBLE_INDEX, CAPTURE_INDEX} |-> "null"]
                ELSE el.listeners[n]]
      kept == nextProp # "null" /\ listeners[name][BUBBLE_INDEX] # "null"
  IN  [el EXCEPT
         !.listeners =
           [listeners EXCEPT ![name][BUBBLE_INDEX] =
                               IF kept THEN @ ELSE nextProp],
         !.eventListeners =
           IF nextProp # "null"
           THEN addEventListener(el.eventListeners, name, bubbleEventProxy,
                                 FALSE)
           ELSE removeEventListener(el.eventListeners, name,
                                    bubbleEventProxy, FALSE)]

\* an update that leaves the proxy attached when the handler is removed
updateListenerNoRemove(el, givenPropKey, nextProp) ==
  LET name == nativeEventNameForPropKey(el, replaceCapture(givenPropKey))
      listeners ==
        IF name \in DOMAIN el.listeners THEN el.listeners
        ELSE [n \in DOMAIN el.listeners \cup {name} |->
                IF n = name
                THEN [i \in {BUBBLE_INDEX, CAPTURE_INDEX} |-> "null"]
                ELSE el.listeners[n]]
  IN  [el EXCEPT
         !.listeners = [listeners EXCEPT ![name][BUBBLE_INDEX] = nextProp],
         !.eventListeners =
           IF nextProp # "null"
           THEN addEventListener(el.eventListeners, name, bubbleEventProxy,
                                 FALSE)
           ELSE el.eventListeners]

\* updateListener(element, propKey, nextProp): the element afterwards.  The
\* assignment of line 30 gives propKey and name the same stripped key.
updateListener(el, givenPropKey, nextProp) ==
  LET propKey == replaceCapture(givenPropKey)
      strippedName == propKey
      useCapture == propKey # strippedName
      useCaptureIndex == IF useCapture THEN CAPTURE_INDEX ELSE BUBBLE_INDEX
      name == nativeEventNameForPropKey(el, strippedName)
      listeners ==
        IF name \in DOMAIN el.listeners THEN el.listeners
        ELSE [n \in DOMAIN el.listeners \cup {name} |->
                IF n = name
                THEN [i \in {BUBBLE_INDEX, CAPTURE_INDEX} |-> "null"]
                ELSE el.listeners[n]]
      proxy == IF useCapture THEN captureEventProxy ELSE bubbleEventProxy
      eventListeners ==
        IF nextProp # "null"
        THEN IF listeners[name][useCaptureIndex] = "null"
             THEN addEventListener(el.eventListeners, name, proxy, useCapture)
             ELSE el.eventListeners
        ELSE removeEventListener(el.eventListeners, name, proxy, useCapture)
  IN  [el EXCEPT
         !.listeners = [listeners EXCEPT ![name][useCaptureIndex] = nextProp],
         !.eventListeners = eventListeners]

\* the function createEventProxy(index) returns, called with the element as
\* this: the handlers it calls, "TypeError" when what it calls is no function
EventProxy(index, this, type) ==
  IF this.disabled THEN <<>>
  ELSE IF type \notin DOMAIN this.listeners THEN <<"TypeError">>
  ELSE IF this.listeners[type][BUBBLE_INDEX] = "null" THEN <<"TypeError">>
  ELSE <<this.listeners[type][BUBBLE_INDEX]>>

RECURSIVE invokeListeners(_, _, _)
\* the listeners of a list are called in order, each call recorded with the
\* phase of its listener
invokeListeners(eventListeners, this, type) ==
  IF eventListeners = <<>> THEN <<>>
  ELSE LET listener == Head(eventListeners)
           calls == EventProxy(listener.callback.index, this, type)
           phase == IF listener.capture THEN "captured" ELSE "bubbled"
       IN  [k \in DOMAIN calls |-> <<calls[k], phase>>]
           \o invokeListeners(Tail(eventListeners), this, type)

\* EventTarget.dispatchEvent with the element as target: its capturing
\* listeners of the type are called, then its other listeners of the type
dispatchEvent(el, type) ==
  invokeListeners(
    SelectSeq(el.eventListeners, LAMBDA l : l.type = type /\ l.capture)
    \o SelectSeq(el.eventListeners, LAMBDA l : l.type = type /\ ~l.capture),
    el, type)

\* An element is created, without listeners.
CreateElement ==
  /\ ~element.created
  /\ \E el \in Elements, disabled \in BOOLEAN :
       element' = [element EXCEPT !.created = TRUE,
                                  !.nodeName = el.nodeName,
                                  !.type = el.type,
                                  !.disabled = disabled]
  /\ UNCHANGED <<responderVars, simple, synthetic, dispatch, pool, tally>>

\* The renderer calls updateListener for a prop of the element.
UpdateListener ==
  /\ element.created
  /\ \E propKey \in PropKeys, nextProp \in NextProps :
       element' =
         [updateListener(element, propKey, nextProp) EXCEPT
            !.props = [p \in DOMAIN element.props \cup {propKey} |->
                         IF p = propKey THEN nextProp ELSE element.props[p]],
            !.call = [propKey |-> propKey, nextProp |-> nextProp],
            !.fired = NoElement.fired]
  /\ UNCHANGED <<responderVars, simple, synthetic, dispatch, pool, tally>>

\* The browser dispatches a native event on the element.
DispatchNative ==
  /\ element.created
  /\ \E type \in EventNames :
       element' = [element EXCEPT
                     !.fired = [type |-> type,
                                calls |-> dispatchEvent(element, type)]]
  /\ UNCHANGED <<responderVars, simple, synthetic, dispatch, pool, tally>>

NextListener == CreateElement \/ UpdateListener \/ DispatchNative

SpecListener == Init /\ [][NextListener]_vars

\* ----------------------------------------------------------- properties

\* what the last extractEvents call returned and did, while its events wait
\* to be delivered
Returned(name, inst) ==
  \E k \in DOMAIN extracted : extracted[k] = getPooled(name, inst)

ReturnedSome(name) ==
  \E k \in DOMAIN extracted : extracted[k].dispatchConfig = name

Invoked(name) == \E k \in DOMAIN onDemand : onDemand[k][1] = name

ShouldSetNames ==
  {registrationName(shouldSetEventType(type), phase) :
     type \in TopLevelTypes, phase \in Phases}

\* the instances whose should-set handler answered the query with a truthy
\* value, and the candidate among them
Nominated ==
  {onDemand[k][2] : k \in {j \in DOMAIN onDemand :
                             /\ onDemand[j][1] \in ShouldSetNames
                             /\ isTruthy(onDemand[j][3])}}

Candidate == IF Nominated = {} THEN NoInst ELSE CHOOSE inst \in Nominated : TRUE

\* the last call ran the negotiation stage
Negotiated ==
  /\ pc = "extracted"
  /\ ~dropped
  /\ call.targetInst # NoInst
  /\ \/ call.topLevelType = "topScroll"
          /\ ~call.nativeEvent.responderIgnoreScroll
     \/ call.topLevelType = "topSelectionChange" /\ trackedTouchCount > 0
     \/ call.topLevelType \in StartTypes \cup MoveTypes

\* the last call asked the responder it found to give the status up
TerminationAsked ==
  /\ pc = "extracted"
  /\ call.responderInst # NoInst
  /\ Candidate \notin {NoInst, call.responderInst}

Unrelated(instA, instB) ==
  /\ instA # NoInst /\ instB # NoInst
  /\ ~isAncestor(instA, instB) /\ ~isAncestor(instB, instA)

Leaves == {inst \in Insts : \A other \in Insts : getParent(other) # inst}

RespondersOf(inst) == IF inst = NoInst THEN {} ELSE {inst}

\* C1: at most one instance holds responder status, at any time; and once
\* the events of an extraction are delivered, the only instance that holds
\* it is the plugin's responder, so that the instance that held it before a
\* new one was granted it has lost it in the same step.
SingleResponder ==
  /\ Cardinality(holders) <= 1
  /\ deliver(holders, extracted) = RespondersOf(responderInst)

\* C1 happens: a call moved the status from one instance to another
SingleResponderWitness ==
  /\ pc = "extracted"
  /\ call.responderInst # NoInst
  /\ holders = {call.responderInst}
  /\ responderInst \notin {NoInst, call.responderInst}

\* C2: a call that finds a responder R and leaves another instance as
\* responder leaves a proper ancestor of R; a call that finds no responder
\* and leaves one leaves the event's target or an ancestor of it.
TransferOnlyToAncestor ==
  (/\ pc = "extracted"
   /\ responderInst # NoInst
   /\ responderInst # call.responderInst)
  => IF call.responderInst # NoInst
     THEN isAncestor(responderInst, getParent(call.responderInst))
     ELSE isAncestor(responderInst, call.targetInst)

\* C2 happens: with a responder, an event on an instance that is neither
\* above nor below it moved the status
TransferOnlyToAncestorWitness ==
  /\ pc = "extracted"
  /\ Unrelated(call.responderInst, call.targetInst)
  /\ responderInst \notin {NoInst, call.responderInst}

\* C3: trackedTouchCount is never below zero, and an end-ish event that
\* would take it below zero is dropped and leaves the count as it was.
TrackedTouchCountNeverNegative ==
  /\ trackedTouchCount >= 0
  /\ (/\ pc = "extracted"
      /\ isEndish(call.topLevelType)
      /\ call.trackedTouchCount - 1 < 0)
     => dropped /\ trackedTouchCount = call.trackedTouchCount

\* C4: when the responder L consents to the candidate M, the call leaves M
\* as responder, returns a grant for M and a terminate for L, and calls the
\* responder hook once, with (L, M, block).
SuccessfulTransfer ==
  (/\ TerminationAsked
   /\ \/ call.props.onResponderTerminationRequest = NoListener
      \/ isTruthy(call.props.onResponderTerminationRequest))
  => /\ responderInst = Candidate
     /\ Returned("onResponderGrant", Candidate)
     /\ Returned("onResponderTerminate", call.responderInst)
     /\ \E block \in {"true", "false"} :
          responderChanges = <<<<call.responderInst, Candidate, block>>>>

\* C4 happens: the responder was asked, answered with a truthy value, and
\* the hook was called
SuccessfulTransferWitness ==
  /\ TerminationAsked
  /\ call.props.onResponderTerminationRequest = "truthy"
  /\ Invoked("onResponderTerminationRequest")
  /\ responderChanges # <<>>

\* C5: when the termination-request handler of the responder L returns a
\* falsy value, the call leaves L as responder, does not call the responder
\* hook, returns no terminate and no grant, and returns a reject for the
\* candidate.
RefusedTransfer ==
  (/\ pc = "extracted"
   /\ call.responderInst # NoInst
   /\ \E k \in DOMAIN onDemand :
        onDemand[k] =
          <<"onResponderTerminationRequest", call.responderInst, "falsy">>)
  => /\ responderInst = call.responderInst
     /\ responderChanges = <<>>
     /\ ~ReturnedSome("onResponderTerminate")
     /\ ~ReturnedSome("onResponderGrant")
     /\ Candidate # NoInst
     /\ Returned("onResponderReject", Candidate)

\* C5 happens: the responder refused a candidate, whose grant handler had
\* been invoked
RefusedTransferWitness ==
  /\ pc = "extracted"
  /\ call.responderInst # NoInst
  /\ onDemand # <<>>
  /\ onDemand[Len(onDemand)] =
       <<"onResponderTerminationRequest", call.responderInst, "falsy">>
  /\ Invoked("onResponderGrant")
  /\ ReturnedSome("onResponderReject")

\* C6: asked to give the status up, the responder consents exactly when it
\* has no termination-request handler or the handler returns a truthy value:
\* the status moves to the candidate in exactly these cases, and a handler
\* is invoked exactly when there is one.
TerminationConsent ==
  TerminationAsked
  => /\ responderInst = Candidate
          <=> (\/ call.props.onResponderTerminationRequest = NoListener
               \/ call.props.onResponderTerminationRequest \in {"true", "truthy"})
     /\ call.props.onResponderTerminationRequest = "falsy"
          <=> responderInst = call.responderInst
     /\ Invoked("onResponderTerminationRequest")
          <=> call.props.onResponderTerminationRequest # NoListener

\* C6 happens: a responder without a termination-request handler lost the
\* status to the candidate
TerminationConsentWitness ==
  /\ TerminationAsked
  /\ call.props.onResponderTerminationRequest = NoListener
  /\ ~Invoked("onResponderTerminationRequest")
  /\ responderInst = Candidate

\* C7: when the should-set query nominates nobody, or nominates the
\* responder, the call leaves the responder as it was, invokes no grant
\* handler, no termination-request handler and no responder hook, and
\* returns no grant, no terminate and no reject.
NoCandidateNoChange ==
  (/\ Negotiated
   /\ Candidate \in {NoInst, call.responderInst})
  => /\ responderInst = call.responderInst
     /\ ~Invoked("onResponderGrant")
     /\ ~Invoked("onResponderTerminationRequest")
     /\ responderChanges = <<>>
     /\ ~ReturnedSome("onResponderGrant")
     /\ ~ReturnedSome("onResponderTerminate")
     /\ ~ReturnedSome("onResponderReject")

\* C7 happens: with a responder, a should-set handler was asked and declined,
\* and the call returned only the incremental event
NoCandidateNoChangeWitness ==
  /\ Negotiated
  /\ call.responderInst # NoInst
  /\ onDemand # <<>>
  /\ Candidate = NoInst
  /\ extracted # <<>>

\* the case of C8: no responder, and the single touch-start lands on a leaf
\* whose should-set handler returns true
StartOnLeaf ==
  /\ pc = "extracted"
  /\ call.responderInst = NoInst
  /\ call.topLevelType = "topTouchStart"
  /\ BagCardinality(call.nativeEvent.touches) = 1
  /\ call.targetInst \in Leaves
  /\ \E k \in DOMAIN onDemand :
       /\ onDemand[k][1] \in {"onStartShouldSetResponder",
                              "onStartShouldSetResponderCapture"}
       /\ onDemand[k][2] = call.targetInst
       /\ onDemand[k][3] = "true"

\* C8 as stated: in that case extractEvents returns exactly the grant for
\* the leaf, and the responder hook is called with (null, leaf, block).
StartOnLeafReturnsOnlyGrant ==
  StartOnLeaf
  => /\ extracted = <<getPooled("onResponderGrant", call.targetInst)>>
     /\ \E block \in {"true", "false"} :
          responderChanges = <<<<NoInst, call.targetInst, block>>>>

\* C8: in that case extractEvents returns exactly the grant for the leaf
\* followed by the responder-start for the leaf, the leaf is the responder,
\* and the responder hook is called once, with (null, leaf, block).
StartOnLeafReturnsGrantAndStart ==
  StartOnLeaf
  => /\ extracted = <<getPooled("onResponderGrant", call.targetInst),
                      getPooled("onResponderStart", call.targetInst)>>
     /\ responderInst = call.targetInst
     /\ \E block \in {"true", "false"} :
          responderChanges = <<<<NoInst, call.targetInst, block>>>>

\* C8 happens
StartOnLeafWitness ==
  /\ StartOnLeaf
  /\ Len(extracted) = 2
  /\ responderInst = call.targetInst

\* the case of C9: with a responder, a touch-start lands on an instance that
\* is neither above nor below it
StartOnUnrelated ==
  /\ pc = "extracted"
  /\ call.topLevelType = "topTouchStart"
  /\ Unrelated(call.responderInst, call.targetInst)

\* C9 as stated: in that case, when the should-set handler of the target
\* returns true, extractEvents returns exactly the reject for the target and
\* the responder stays.  (The termination-request handler of the responder
\* is not looked up in such a call, so what it would return is no part of
\* the case.)
StartOnUnrelatedReturnsRejectForTarget ==
  (/\ StartOnUnrelated
   /\ call.props.shouldSet[<<call.targetInst, "bubbled">>] = "true")
  => /\ extracted = <<getPooled("onResponderReject", call.targetInst)>>
     /\ responderInst = call.responderInst

\* C9: in that case no should-set handler of the target is invoked, whatever
\* it would return.  When no instance above both nominates itself,
\* extractEvents returns exactly the responder-start for the responder; when
\* one does and the termination-request handler of the responder returns a
\* falsy value, it returns exactly the reject for that ancestor followed by
\* the responder-start for the responder.  The responder stays in both.
StartOnUnrelatedAsksCommonAncestors ==
  StartOnUnrelated
  => /\ \A k \in DOMAIN onDemand : onDemand[k][2] # call.targetInst
     /\ Candidate = NoInst
          => /\ extracted =
                  <<getPooled("onResponderStart", call.responderInst)>>
             /\ responderInst = call.responderInst
     /\ (/\ Candidate # NoInst
         /\ call.props.onResponderTerminationRequest = "falsy")
          => /\ isAncestor(Candidate, call.responderInst)
             /\ isAncestor(Candidate, call.targetInst)
             /\ extracted =
                  <<getPooled("onResponderReject", Candidate),
                    getPooled("onResponderStart", call.responderInst)>>
             /\ responderInst = call.responderInst

\* C9 happens: an instance above both nominated itself and the responder
\* refused
StartOnUnrelatedWitness ==
  /\ StartOnUnrelated
  /\ Candidate # NoInst
  /\ call.props.onResponderTerminationRequest = "falsy"
  /\ Invoked("onResponderTerminationRequest")
  /\ Len(extracted) = 2

\* the case of C10: with a responder, the one touch that is tracked ends
OnlyTouchEnds ==
  /\ pc = "extracted"
  /\ call.responderInst # NoInst
  /\ call.topLevelType = "topTouchEnd"
  /\ call.trackedTouchCount = 1
  /\ call.nativeEvent.touches = EmptyBag

CountReturned(name) ==
  Cardinality({k \in DOMAIN extracted : extracted[k].dispatchConfig = name})

\* the responder once the negotiation stage of the last call was over, as the
\* responder hook saw it
ResponderAfterNegotiation ==
  IF responderChanges # <<>> /\ responderChanges[1][2] # NoInst
  THEN responderChanges[1][2]
  ELSE call.responderInst

IncrementalOf ==
  [onResponderStart |-> StartTypes, onResponderMove |-> MoveTypes,
   onResponderEnd |-> EndTypes]

\* C11: a call that is not dropped returns exactly one responder-start,
\* responder-move or responder-end event when its event is start-ish, move-ish
\* or end-ish and there is a responder once its negotiation stage is over,
\* and that event is for that responder; in every other case, events that
\* are a scroll or a selection change among them, it returns none.
IncrementalDelivery ==
  (pc = "extracted" /\ ~dropped)
  => \A name \in DOMAIN IncrementalOf :
       IF /\ call.topLevelType \in IncrementalOf[name]
          /\ ResponderAfterNegotiation # NoInst
       THEN /\ CountReturned(name) = 1
            /\ Returned(name, ResponderAfterNegotiation)
       ELSE CountReturned(name) = 0

\* C11 happens: a move-ish event moved the status and the new responder got
\* the responder-move
IncrementalDeliveryWitness ==
  /\ pc = "extracted"
  /\ isMoveish(call.topLevelType)
  /\ call.responderInst # NoInst
  /\ responderInst \notin {NoInst, call.responderInst}
  /\ Returned("onResponderMove", responderInst)

\* the case of C12: with a responder, a touch-cancel is passed to
\* extractEvents
CancelWithResponder ==
  /\ pc = "extracted"
  /\ call.responderInst # NoInst
  /\ call.topLevelType = "topTouchCancel"

\* C12 as stated: in that case, in every reachable state, the call returns a
\* responder-terminate for the responder and leaves no responder.
CancelAlwaysTerminates ==
  CancelWithResponder
  => /\ Returned("onResponderTerminate", call.responderInst)
     /\ responderInst = NoInst

\* C12: in that case, when trackedTouchCount is not below zero before the
\* call, the call returns exactly one responder-terminate, for the responder,
\* and leaves no responder, whatever touches remain and without asking for
\* termination; when trackedTouchCount is below zero the event is dropped,
\* nothing is returned and the responder stays.
CancelTerminatesUnlessDropped ==
  CancelWithResponder
  => IF call.trackedTouchCount >= 0
     THEN /\ ~dropped
          /\ CountReturned("onResponderTerminate") = 1
          /\ Returned("onResponderTerminate", call.responderInst)
          /\ ~Invoked("onResponderTerminationRequest")
          /\ responderInst = NoInst
     ELSE /\ dropped
          /\ extracted = <<>>
          /\ responderInst = call.responderInst

\* C12 happens: a touch is cancelled while another one that started inside
\* the responder remains, and the responder is told it is terminated
CancelTerminatesWitness ==
  /\ CancelWithResponder
  /\ \E target \in BagToSet(call.nativeEvent.touches) :
       target # NoInst /\ isAncestor(call.responderInst, target)
  /\ Returned("onResponderTerminate", call.responderInst)
  /\ responderInst = NoInst

\* the case of C13: with a responder, an end-ish event that is no
\* touch-cancel is passed to extractEvents
EndWithResponder ==
  /\ pc = "extracted"
  /\ call.responderInst # NoInst
  /\ isEndish(call.topLevelType)
  /\ call.topLevelType # "topTouchCancel"

\* a touch the native event of the last call still lists started on the
\* responder or below it
TouchInsideResponder ==
  \E target \in BagToSet(call.nativeEvent.touches) :
    target # NoInst /\ isAncestor(call.responderInst, target)

ReleaseRule ==
  IF TouchInsideResponder
  THEN /\ responderInst = call.responderInst
       /\ CountReturned("onResponderRelease") = 0
  ELSE /\ Returned("onResponderRelease", call.responderInst)
       /\ responderInst = NoInst

\* C13 as stated: in that case the call returns a responder-release and
\* leaves no responder exactly when no touch the native event still lists
\* started on the responder or below it; otherwise the responder stays and
\* no release is returned.
ReleaseExactlyWhenNoTouchInside == EndWithResponder => ReleaseRule

\* C13: the same, for the calls that the touch-count accounting does not
\* drop; a dropped call returns nothing and the responder stays, whatever
\* touches are listed.
ReleaseExactlyWhenNoTouchInsideUnlessDropped ==
  EndWithResponder
  => IF dropped
     THEN extracted = <<>> /\ responderInst = call.responderInst
     ELSE ReleaseRule

\* C13 happens: a touch ends while one that started below the responder is
\* still listed, and the responder stays
ReleaseWitness ==
  /\ EndWithResponder
  /\ ~dropped
  /\ \E target \in BagToSet(call.nativeEvent.touches) :
       target # call.responderInst /\ isAncestor(call.responderInst, target)
  /\ responderInst = call.responderInst
  /\ ReturnedSome("onResponderEnd")

\* the terminal events the last call returned: a responder-release, or the
\* responder-terminate of a cancellation
TerminalReturned ==
  {k \in DOMAIN extracted :
     \/ extracted[k].dispatchConfig = "onResponderRelease"
     \/ /\ extracted[k].dispatchConfig = "onResponderTerminate"
        /\ call.topLevelType = "topTouchCancel"}

\* C14: a call that returns a terminal event leaves no responder, and the
\* terminal event is for the instance that was responder until then; and a
\* call that finds a responder and leaves none returns a terminal event.
TerminalEventClearsResponder ==
  pc = "extracted"
  => /\ TerminalReturned # {}
          => /\ responderInst = NoInst
             /\ call.responderInst # NoInst
             /\ \A k \in TerminalReturned :
                  extracted[k].targetInst = call.responderInst
     /\ (call.responderInst # NoInst /\ responderInst = NoInst)
          => TerminalReturned # {}

\* C14 happens: a mouse-up released the responder
TerminalEventWitness ==
  /\ pc = "extracted"
  /\ call.topLevelType = "topMouseUp"
  /\ call.responderInst # NoInst
  /\ Returned("onResponderRelease", call.responderInst)
  /\ responderInst = NoInst

InteractionHookOnChange ==
  /\ previousActiveTouches = numberActiveTouches
  /\ pc = "extracted"
       => interactionChanges =
            IF ~dropped /\ numberActiveTouches # call.previousActiveTouches
            THEN <<numberActiveTouches>>
            ELSE <<>>

\* C16 happens: a second touch starts and the hook is told of two touches,
\* having been told of one
InteractionHookWitness ==
  /\ pc = "extracted"
  /\ call.topLevelType = "topTouchStart"
  /\ call.previousActiveTouches = 1
  /\ interactionChanges = <<2>>

\* the event of the last call is of a kind that can trigger a transfer
TransferKind ==
  \/ isStartish(call.topLevelType)
  \/ isMoveish(call.topLevelType)
  \/ call.topLevelType = "topScroll" /\ ~call.nativeEvent.responderIgnoreScroll
  \/ call.topLevelType = "topSelectionChange" /\ trackedTouchCount > 0

\* the last call returned a grant or a reject, or moved the status
NegotiationOutcome ==
  \/ ReturnedSome("onResponderGrant")
  \/ ReturnedSome("onResponderReject")
  \/ responderInst \notin {NoInst, call.responderInst}

NoNegotiationForEndOrIgnoredScroll ==
  (\/ isEndish(call.topLevelType)
   \/ call.topLevelType = "topScroll" /\ call.nativeEvent.responderIgnoreScroll)
  => ~queried /\ ~NegotiationOutcome

\* C17 as stated: the should-set query is dispatched exactly for the events
\* that are start-ish, move-ish, a scroll that is not to be ignored, or a
\* selection change while touches are tracked; an end-ish event or an ignored
\* scroll causes no grant, no reject and no transfer.
QueryExactlyForTransferKinds ==
  pc = "extracted"
  => /\ queried <=> TransferKind
     /\ NoNegotiationForEndOrIgnoredScroll

\* C17: the should-set query is dispatched exactly for the events of these
\* kinds that come with a target instance; an end-ish event or an ignored
\* scroll causes no grant, no reject and no transfer.
QueryExactlyForTransferKindsWithTarget ==
  pc = "extracted"
  => /\ queried <=> (call.targetInst # NoInst /\ TransferKind)
     /\ NoNegotiationForEndOrIgnoredScroll

\* C17 happens: a selection change while a touch is tracked made its target
\* the responder
QueryWitness ==
  /\ pc = "extracted"
  /\ call.topLevelType = "topSelectionChange"
  /\ queried
  /\ call.responderInst = NoInst
  /\ responderInst = call.targetInst
  /\ ReturnedSome("onResponderGrant")

\* C18: while an instance is the responder, no should-set handler of it is
\* invoked, in either phase and for any kind of event: the handlers the query
\* invokes are those of instances strictly above the responder that are the
\* target or above it.
ResponderNotAsked ==
  (pc = "extracted" /\ call.responderInst # NoInst)
  => \A k \in DOMAIN onDemand :
       onDemand[k][1] \in ShouldSetNames
       => /\ onDemand[k][2] # call.responderInst
          /\ isAncestor(onDemand[k][2], getParent(call.responderInst))
          /\ isAncestor(onDemand[k][2], call.targetInst)

\* C18 happens: a query ran for an event on the responder, whose own
\* should-set handler would have returned true, and nobody was asked
ResponderNotAskedWitness ==
  /\ pc = "extracted"
  /\ queried
  /\ call.responderInst # NoInst
  /\ call.targetInst = call.responderInst
  /\ call.props.shouldSet[<<call.responderInst, "bubbled">>] = "true"
  /\ onDemand = <<>>
  /\ responderInst = call.responderInst

\* an end-ish event that arrives while the tracked touch count is negative
DroppedCase ==
  /\ pc = "extracted"
  /\ isEndish(call.topLevelType)
  /\ call.trackedTouchCount < 0

\* C19: an end-ish event that arrives while the tracked touch count is
\* negative is dropped: the call returns no events, the responder, the tracked
\* touch count, the touch history and the last reported number of active
\* touches are what they were before the call, and the call invokes no
\* handler and neither global hook.
DroppedLeavesStateUnchanged ==
  DroppedCase
  => /\ dropped
     /\ extracted = <<>>
     /\ responderInst = call.responderInst
     /\ trackedTouchCount = call.trackedTouchCount
     /\ numberActiveTouches = call.numberActiveTouches
     /\ previousActiveTouches = call.previousActiveTouches
     /\ ~queried
     /\ onDemand = <<>>
     /\ responderChanges = <<>>
     /\ interactionChanges = <<>>

\* C19 happens: a touch-end that reports no touch left is dropped while an
\* instance is the responder and a touch is on record
DroppedWitness ==
  /\ DroppedCase
  /\ dropped
  /\ call.topLevelType = "topTouchEnd"
  /\ call.responderInst # NoInst
  /\ call.numberActiveTouches > 0
  /\ BagCardinality(call.nativeEvent.touches) = 0

\* the tracked touch count after events of the given types, one after the
\* other
RECURSIVE countAfter(_, _)
countAfter(types, count) ==
  IF types = <<>> THEN count
  ELSE countAfter(Tail(types), trackTouchCount(Head(types), count).count)

\* a call has returned in which a handler raised a native event
ReentrantCase == pc = "extracted" /\ frame.nested # <<>>

\* after both calls the count is what the two events give one after the other
ReentrantCount ==
  ReentrantCase
  => trackedTouchCount =
       countAfter(<<call.topLevelType>> \o frame.nested, call.trackedTouchCount)

\* after both calls at most one instance holds responder status, and once the
\* events of the outer call are delivered it is the plugin's responder
ReentrantSingleResponder ==
  ReentrantCase
  => /\ Cardinality(holders) <= 1
     /\ deliver(holders, extracted) = RespondersOf(responderInst)

\* every change of responder the two calls made, from one instance to
\* another, went to a proper ancestor
ReentrantAncestorOnly ==
  ReentrantCase
  => \A k \in DOMAIN responderChanges :
       (responderChanges[k][1] # NoInst /\ responderChanges[k][2] # NoInst)
       => isAncestor(responderChanges[k][2],
                     getParent(responderChanges[k][1]))

\* C20: when a handler or a hook invoked by extractEvents raises a native
\* event that is extracted before the handler returns, then after both calls
\* the tracked touch count is what the two events give one after the other,
\* at most one instance holds responder status, and the responder only ever
\* moved to a proper ancestor.
ReentrantTolerated ==
  /\ ReentrantCount
  /\ ReentrantSingleResponder
  /\ ReentrantAncestorOnly

\* a SimpleEventPlugin.extractEvents call has returned
SimpleCalled == simple.topLevelType # "none"

\* the keypress of a function key and the click of the right button
SimpleFiltered ==
  \/ simple.topLevelType = "TOP_KEY_PRESS" /\ simple.charCode = 0
  \/ simple.topLevelType = "TOP_CLICK" /\ simple.button = 2

\* C21: for a top-level type without an entry in
\* topLevelEventsToDispatchConfig, SimpleEventPlugin.extractEvents returns
\* null: no event is created and no dispatch accumulated; for a type with an
\* entry, the filtered keypress and click apart, it returns exactly one event,
\* whose dispatchConfig is that entry and whose dispatches are accumulated.
SimpleOneEventPerConfiguredType ==
  SimpleCalled
  => /\ simple.topLevelType \notin ConfiguredTypes => simple.result = <<>>
     /\ (simple.topLevelType \in ConfiguredTypes /\ ~SimpleFiltered)
        => /\ Len(simple.result) = 1
           /\ simple.result[1].dispatchConfig =
                topLevelEventsToDispatchConfig[simple.topLevelType]
           /\ simple.result[1].accumulated

\* C21 happens: a composition event, for which the plugin has no entry, was
\* passed in
SimpleNoEntryWitness ==
  /\ simple.topLevelType = "TOP_COMPOSITION_START"
  /\ simple.result = <<>>

\* the top-level types that the constructor switch of extractEvents has a
\* case for
ClassifiedTypes ==
  {t \in DOMTopLevelEventTypes : EventConstructor(t) # "SyntheticEvent"}

\* C22: a top-level type that has a dispatch configuration but no case in the
\* constructor switch of SimpleEventPlugin.extractEvents is neither discarded
\* nor an error: exactly one event is returned, made by the base
\* SyntheticEvent constructor with the type's configuration.
SimpleUnclassifiedConfiguredGetsGeneric ==
  (/\ SimpleCalled
   /\ simple.topLevelType \in ConfiguredTypes
   /\ simple.topLevelType \notin ClassifiedTypes)
  => /\ Len(simple.result) = 1
     /\ simple.result[1].EventConstructor = "SyntheticEvent"
     /\ simple.result[1].dispatchConfig =
          topLevelEventsToDispatchConfig[simple.topLevelType]

\* an abort event, which the switch has no case for, gets the base constructor
SimpleGenericWitness ==
  /\ simple.topLevelType = "TOP_ABORT"
  /\ Len(simple.result) = 1
  /\ simple.result[1].EventConstructor = "SyntheticEvent"

\* C22 as stated: every top-level type without a case in the constructor
\* switch produces one event of the base SyntheticEvent constructor, whether
\* or not the type has a dispatch configuration.
SimpleUnclassifiedGetsGeneric ==
  (SimpleCalled /\ simple.topLevelType \notin ClassifiedTypes)
  => /\ Len(simple.result) = 1
     /\ simple.result[1].EventConstructor = "SyntheticEvent"

SyntheticMade == synthetic.created /\ synthetic.threw = "none"

\* what a normalizer entry stands for when it is taken as the field's value
NormalizerValue(entry) ==
  IF entry = "function" THEN "normalized"
  ELSE IF entry = "constant" THEN "constantValue" ELSE "null"

\* C23: on a created synthetic event, for every name collected from the
\* native event that the event does not already hold a truthy field for, the
\* field is the normalizer function's result when the normalizer has a
\* function for the name (for target too), otherwise nativeEventTarget for
\* target and the raw native value for any other name; a name the event
\* already holds, such as preventDefault, keeps its built-in value.
SyntheticFieldsAsComputed ==
  SyntheticMade
  => \A n \in SeqRange(synthetic.properties) :
       synthetic.fields[n] =
         IF Has(BuiltIn, n) THEN BuiltIn[n]
         ELSE IF synthetic.normalizer[n] = "function" THEN "normalized"
         ELSE IF n = "target" THEN synthetic.nativeEventTarget
         ELSE RawValue(n)

\* a wheel-like event: deltaX from the normalizer, type copied, target the
\* supplied one
SyntheticFieldsWitness ==
  /\ SyntheticMade
  /\ synthetic.normalizer["deltaX"] = "function"
  /\ synthetic.properties = <<"type", "deltaX", "type", "target",
                              "preventDefault">>
  /\ synthetic.fields["deltaX"] = "normalized"
  /\ synthetic.fields["type"] = "click"
  /\ synthetic.fields["target"] = "eventTarget"

\* C23 as stated: every collected name's field is the normalizer's value when
\* the normalizer defines the name, function or constant, otherwise the raw
\* native value, and target is always nativeEventTarget.
SyntheticFieldsAsDeclared ==
  SyntheticMade
  => /\ \A n \in SeqRange(synthetic.properties) \ {"target"} :
          synthetic.fields[n] =
            IF synthetic.normalizer[n] # "none"
            THEN NormalizerValue(synthetic.normalizer[n])
            ELSE RawValue(n)
     /\ synthetic.fields["target"] = synthetic.nativeEventTarget

\* C24: every field the normalizer declares is present on the created event
\* and computed by the normalizer, whatever properties the native event has,
\* so that the field set does not depend on the native event.
NormalizerFieldsAlwaysPresent ==
  SyntheticMade
  => \A n \in PropNames :
       synthetic.normalizer[n] = "function"
       => /\ n \in DOMAIN synthetic.fields
          /\ synthetic.fields[n] = "normalized"

\* one of the first d objects of the chain has target among its own keys
TargetWithin(chain, d) ==
  \E i \in DOMAIN chain : i <= d /\ "target" \in SeqRange(chain[i])

\* C25: the property walk inspects at most 10 objects, raises its error only
\* when none of the first 10 objects of the chain has an own enumerable
\* target key, and succeeds whenever one of them has.
WalkFailsOnlyBeyondBound ==
  synthetic.created
  => /\ synthetic.inspected <= MaxDepth
     /\ synthetic.walked = "Error"
        => ~TargetWithin(synthetic.chain, MaxDepth)
     /\ TargetWithin(synthetic.chain, MaxDepth)
        => synthetic.walked = "none"

\* C26: after a call of preventDefault, isDefaultPrevented() is true, and
\* after a call of stopPropagation, isPropagationStopped() is true, whether
\* the native event has the method, the legacy field or neither; a second
\* call of either changes nothing; a flag that is true stays true.
SuppressionIdempotentAndSticky ==
  [][(synthetic'.created /\ synthetic'.threw = "none")
     => /\ synthetic'.last = "preventDefault"
           => /\ synthetic'.isDefaultPrevented
              /\ preventDefault(synthetic') = synthetic'
        /\ synthetic'.last = "stopPropagation"
           => /\ synthetic'.isPropagationStopped
              /\ stopPropagation(synthetic') = synthetic'
        /\ SyntheticMade
           => /\ synthetic.isDefaultPrevented
                 => synthetic'.isDefaultPrevented
              /\ synthetic.isPropagationStopped
                 => synthetic'.isPropagationStopped]_vars

\* both methods were called on an event whose native event offers neither
\* the methods nor the legacy fields
SuppressionWitness ==
  /\ SyntheticMade
  /\ synthetic.native.style = "unknown"
  /\ synthetic.native.defaultPrevented = "undefined"
  /\ synthetic.native.returnValue = "undefined"
  /\ synthetic.last = "stopPropagation"
  /\ synthetic.isDefaultPrevented
  /\ synthetic.isPropagationStopped

\* C27: once a handler has called stopPropagation on an event, no later
\* handler of that event's dispatch list is invoked, whatever the native
\* event offers; the direct event accumulated in the same pass is still
\* delivered to its handler.
StopPropagationCutsOnlyItsList ==
  dispatch.ran
  => /\ \A k \in DOMAIN dispatch.dispatches :
          (\E j \in 1..(k - 1) :
             dispatch.handlers[dispatch.dispatches[j]] = "stops")
          => dispatch.dispatches[k] \notin SeqRange(dispatch.invoked)
     /\ dispatch.directHandler # "none"
        => dispatch.directInvoked = <<dispatch.directInst>>

\* the bubble handler of child 2 stops the propagation on a native event
\* without stopPropagation: root 1's bubble handler is not invoked, the
\* direct event's handler is
StopPropagationWitness ==
  /\ dispatch.ran
  /\ dispatch.style = "legacy"
  /\ dispatch.targetInst = 2
  /\ dispatch.dispatches = <<<<2, "bubbled">>, <<1, "bubbled">>>>
  /\ dispatch.handlers[<<2, "bubbled">>] = "stops"
  /\ dispatch.invoked = <<<<2, "bubbled">>>>
  /\ dispatch.directInvoked = <<1>>

\* C28: the responder plugin releases no event that is persistent at that
\* moment; it touches no event object between the object's release and its
\* next getPooled; and every event extractEvents gets back is live, so never
\* a released should-set or termination-request event.
ReleasedEventsStayUntouched ==
  pool.ran
  => /\ \A k \in DOMAIN pool.ops :
          /\ pool.ops[k].op = "release" => ~pool.ops[k].persistent
          /\ pool.ops[k].op # "getPooled" => pool.ops[k].live
     /\ \A k \in DOMAIN pool.extracted :
          pool.extracted[k] \notin SeqRange(pool.free)
     /\ \A k \in DOMAIN pool.extracted, j \in DOMAIN pool.ops :
          (pool.ops[j].op = "release" /\ pool.ops[j].obj = pool.extracted[k])
          => \E i \in (j + 1)..Len(pool.ops) :
               /\ pool.ops[i].op = "getPooled"
               /\ pool.ops[i].obj = pool.extracted[k]

\* the query event was persisted by a handler and kept, the request event
\* was released, and the transfer went through
ReleasedEventsWitness ==
  /\ pool.ran
  /\ pool.in.shouldSetPersisted /\ pool.in.responder
  /\ pool.in.hasRequestHandler /\ ~pool.in.requestPersisted
  /\ Len(pool.extracted) = 2
  /\ \E k \in DOMAIN pool.ops :
       /\ pool.ops[k].op = "release"
       /\ pool.ops[k].obj = pool.terminationRequestEvent
  /\ \A k \in DOMAIN pool.ops :
       pool.ops[k].op = "release" => pool.ops[k].obj # pool.shouldSetEvent

\* the dispatch configurations the call of extractEvents created events
\* with: that of the query, those of the events returned, and those of the
\* grant and the termination request, which are created for every candidate
\* and for every candidate under a responder
CreatedKinds ==
  LET returned == {extracted[k].dispatchConfig : k \in DOMAIN extracted}
  IN  returned
      \cup (IF queried THEN {shouldSetEventType(call.topLevelType)} ELSE {})
      \cup (IF returned \cap {"onResponderGrant", "onResponderReject"} # {}
            THEN {"onResponderGrant"} ELSE {})
      \cup (IF returned \cap {"onResponderTerminate", "onResponderReject"}
               # {}
            THEN {"onResponderTerminationRequest"} ELSE {})

\* the event SimpleEventPlugin creates for a top-level type, here with a
\* printable key and the left button (the other values only filter events
\* out), carries a configuration that lists the type
SimpleKindsWithinDependencies ==
  \A topLevelType \in DOMTopLevelEventTypes :
    LET result == simpleExtractEvents(topLevelType, 97, 0)
    IN  \A k \in DOMAIN result :
          topLevelType \in result[k].dispatchConfig.dependencies

\* C29: an event whose dispatch configuration lists dependencies is created
\* only for a top-level type among them: the should-set queries and
\* onResponderStart, onResponderMove and onResponderEnd of the responder
\* plugin, and every event of the simple plugin.  The configurations of
\* grant, reject, terminate, release and termination request list none.
KindsWithinListedDependencies ==
  /\ pc = "extracted"
     => \A K \in CreatedKinds :
          \/ eventTypes[K].dependencies = {}
          \/ call.topLevelType \in eventTypes[K].dependencies
  /\ \A K \in {"onResponderGrant", "onResponderReject",
               "onResponderTerminate", "onResponderRelease",
               "onResponderTerminationRequest"} :
       eventTypes[K].dependencies = {}
  /\ SimpleKindsWithinDependencies

\* a touch-start made its target the responder: the query and the
\* responder-start are created for a type their configurations list
KindsWitness ==
  /\ pc = "extracted"
  /\ call.topLevelType = "topTouchStart"
  /\ queried
  /\ CreatedKinds = {"onStartShouldSetResponder", "onResponderGrant",
                     "onResponderStart"}

\* C29 as stated: whenever an event is created with configuration K for
\* top-level type t, t is among K's dependencies.
KindsWithinDependencies ==
  /\ pc = "extracted"
     => \A K \in CreatedKinds :
          call.topLevelType \in eventTypes[K].dependencies
  /\ SimpleKindsWithinDependencies

\* C30: in a transfer attempt made while a responder exists, the candidate's
\* onResponderGrant handler is invoked only after the responder's
\* onResponderTerminationRequest handler, if it has one, has answered, and
\* not at all when the attempt ends in onResponderReject.
GrantOnlyAfterConsent ==
  (pc = "extracted" /\ call.responderInst # NoInst)
  => \A g \in DOMAIN onDemand :
       onDemand[g][1] = "onResponderGrant"
       => /\ \A r \in DOMAIN onDemand :
               onDemand[r][1] = "onResponderTerminationRequest" => r < g
          /\ ~ReturnedSome("onResponderReject")

\* C31: a selection change starts a should-set negotiation exactly when its
\* target instance is not null and more start-ish events than end-ish events
\* that were not dropped have been passed to extractEvents; an end-ish event
\* is dropped when the count is already negative.  The count is that
\* difference at all times.
SelectionChangeNegotiatesByCount ==
  /\ trackedTouchCount = tally.starts - tally.counted
  /\ (pc = "extracted" /\ call.topLevelType = "topSelectionChange")
     => (queried <=> (call.targetInst # NoInst
                      /\ tally.starts > tally.counted))

\* after two unmatched mouse-ups, the second dropped, and two mouse-downs a
\* selection change negotiates
SelectionChangeWitness ==
  /\ pc = "extracted" /\ call.topLevelType = "topSelectionChange"
  /\ queried
  /\ tally = [starts |-> 2, ends |-> 2, counted |-> 1]

\* C31 as stated: a selection change starts a negotiation exactly when its
\* target instance is not null and more start-ish than end-ish events have
\* been passed to extractEvents so far.
SelectionChangeNegotiatesByEvents ==
  (pc = "extracted" /\ call.topLevelType = "topSelectionChange")
  => (queried <=> (call.targetInst # NoInst /\ tally.starts > tally.ends))

\* the case of C32: a move-ish or end-ish event is passed to extractEvents
\* with a null target instance
NullTargetCase ==
  /\ pc = "extracted"
  /\ call.targetInst = NoInst
  /\ isMoveish(call.topLevelType) \/ isEndish(call.topLevelType)

\* what the responder of before the call is due from such an event
NullTargetDue ==
  /\ isMoveish(call.topLevelType)
     => Returned("onResponderMove", call.responderInst)
  /\ isEndish(call.topLevelType)
     => Returned("onResponderEnd", call.responderInst)
  /\ call.topLevelType = "topTouchCancel"
     => /\ Returned("onResponderTerminate", call.responderInst)
        /\ responderInst = NoInst
  /\ (/\ isEndish(call.topLevelType)
      /\ call.topLevelType # "topTouchCancel"
      /\ noResponderTouches(call.nativeEvent, call.responderInst))
     => /\ Returned("onResponderRelease", call.responderInst)
        /\ responderInst = NoInst

\* C32: in that case no should-set handler is asked and no handler invoked
\* on demand; unless the event is an end-ish one dropped because
\* trackedTouchCount is below zero, the responder of before the call, if any,
\* is returned its responder-move or responder-end and, for a touch-cancel
\* or an end-ish event that leaves no touch inside it, its terminate or
\* release; a dropped event returns nothing and keeps the responder.
NullTargetServesResponderUnlessDropped ==
  NullTargetCase
  => /\ ~queried /\ onDemand = <<>>
     /\ dropped <=> (isEndish(call.topLevelType)
                     /\ call.trackedTouchCount < 0)
     /\ (~dropped /\ call.responderInst # NoInst) => NullTargetDue
     /\ dropped => /\ extracted = <<>>
                   /\ responderInst = call.responderInst

\* a touch ends with no target instance while an instance is responder: the
\* responder gets its responder-end and its release
NullTargetWitness ==
  /\ NullTargetCase
  /\ call.topLevelType = "topTouchEnd"
  /\ call.responderInst # NoInst
  /\ Returned("onResponderEnd", call.responderInst)
  /\ Returned("onResponderRelease", call.responderInst)
  /\ responderInst = NoInst

\* C32 as stated: in that case no negotiation runs and the responder of
\* before the call, if any, is always returned what it is due.
NullTargetServesResponder ==
  NullTargetCase
  => /\ ~queried /\ onDemand = <<>>
     /\ call.responderInst # NoInst => NullTargetDue

\* the call made an instance the responder
TransferHappened == ReturnedSome("onResponderGrant")

\* the call cleared the responder because a touch was cancelled or the last
\* touch inside the responder ended
ClearingHappened ==
  \/ ReturnedSome("onResponderRelease")
  \/ call.topLevelType = "topTouchCancel"
     /\ ReturnedSome("onResponderTerminate")

\* C33: one call of extractEvents changes the responder at most once and so
\* calls the responder hook at most once: a transfer and a terminal clearing
\* never both happen in a call, since only an end-ish event clears and no
\* end-ish event negotiates.
AtMostOneChangePerCall ==
  pc = "extracted"
  => /\ Len(responderChanges) <= 1
     /\ ~(TransferHappened /\ ClearingHappened)
     /\ ClearingHappened => (isEndish(call.topLevelType) /\ ~queried)
     /\ TransferHappened => (~isEndish(call.topLevelType) /\ queried)

\* a touch on an instance is cancelled while an instance is responder: the
\* status is cleared, the hook called once and nobody is asked
AtMostOneChangeWitness ==
  /\ pc = "extracted"
  /\ call.topLevelType = "topTouchCancel"
  /\ call.targetInst # NoInst
  /\ call.responderInst # NoInst
  /\ ClearingHappened
  /\ responderChanges = <<<<call.responderInst, NoInst, "undefined">>>>

\* C34: SimpleEventPlugin.extractEvents returns null, no event created, for a
\* keypress whose character code is 0 and for a click whose button is 2; for
\* every other keypress it returns one keyboard event and for every other
\* click one mouse event.
SimpleFiltersFunctionKeysAndRightClicks ==
  (SimpleCalled /\ simple.topLevelType \in {"TOP_KEY_PRESS", "TOP_CLICK"})
  => /\ SimpleFiltered => simple.result = <<>>
     /\ ~SimpleFiltered
          => /\ Len(simple.result) = 1
             /\ simple.result[1].EventConstructor =
                  (IF simple.topLevelType = "TOP_KEY_PRESS"
                   THEN "SyntheticKeyboardEvent" ELSE "SyntheticMouseEvent")

\* a click of the right button is discarded
SimpleFilteredWitness ==
  /\ simple.topLevelType = "TOP_CLICK"
  /\ simple.button = 2
  /\ simple.charCode = 97
  /\ simple.result = <<>>

\* C35: a call with a type of the plugin's own table never raises the
\* 'Unhandled event type' warning, as every configured type has a case in the
\* constructor switch or is listed in knownHTMLTopLevelTypes; and the type
\* has exactly one entry in the two name lists together.
SimpleNeverWarns ==
  (SimpleCalled /\ simple.topLevelType \in ConfiguredTypes)
  => /\ ~simple.warned
     /\ \/ simple.topLevelType \in ClassifiedTypes
        \/ simple.topLevelType \in knownHTMLTopLevelTypes
     /\ Cardinality({eventTuple \in interactiveEventTypeNames
                                    \cup nonInteractiveEventTypeNames :
                       eventTuple[1] = simple.topLevelType}) = 1
     /\ ~(\E a \in interactiveEventTypeNames,
             b \in nonInteractiveEventTypeNames : a[1] = b[1])

\* a call gets to the default branch of the switch and does not warn
SimpleNeverWarnsWitness ==
  /\ simple.topLevelType = "TOP_TOGGLE"
  /\ Len(simple.result) = 1
  /\ simple.result[1].EventConstructor = "SyntheticEvent"
  /\ ~simple.warned

\* the native event a prop key stands for on the element
EventOf(propKey) ==
  nativeEventNameForPropKey(element, replaceCapture(propKey))

\* every updateListener call on the element was for the one prop key, the
\* last of them passed a handler, and the native event of the key has been
\* dispatched since
OnlyKeyFired(propKey) ==
  /\ element.created
  /\ DOMAIN element.props = {propKey}
  /\ element.props[propKey] # "null"
  /\ element.fired.type = EventOf(propKey)

\* C36 (amended): after any sequence of updateListener calls for one prop key
\* on an element that is not disabled, the last of them passing a handler, one
\* native event of the key's type calls exactly one handler exactly once, the
\* handler of the most recent call; on a disabled element the event calls no
\* handler.
LatestHandlerFiresOnceUnlessDisabled ==
  \A propKey \in PropKeys :
    OnlyKeyFired(propKey)
    => /\ ~element.disabled
            => /\ Len(element.fired.calls) = 1
               /\ element.fired.calls[1][1] = element.props[propKey]
       /\ element.disabled => element.fired.calls = <<>>

\* a click on an element that is not disabled calls the handler last passed
\* for onClick
LatestHandlerWitness ==
  /\ OnlyKeyFired(onClick)
  /\ ~element.disabled
  /\ element.props[onClick] = "h2"
  /\ element.fired.calls = <<<<"h2", "bubbled">>>>

\* C36 as stated: the event calls the handler of the most recent call exactly
\* once on every element, a disabled one included.
LatestHandlerFiresOnce ==
  \A propKey \in PropKeys :
    OnlyKeyFired(propKey)
    => /\ Len(element.fired.calls) = 1
       /\ element.fired.calls[1][1] = element.props[propKey]

\* the proxy attached for a slot: the bubble proxy as a bubbling listener for
\* the bubble slot, the capture proxy as a capturing one for the capture slot
ProxyListener(name, index) ==
  [type |-> name,
   callback |-> IF index = CAPTURE_INDEX THEN captureEventProxy
                ELSE bubbleEventProxy,
   capture |-> index = CAPTURE_INDEX]

\* how many times a listener is in the element's list
Attached(listener) ==
  Cardinality({k \in DOMAIN element.eventListeners :
                 element.eventListeners[k] = listener})

\* the handler stored in a slot, "null" when the element has no slots for the
\* event name
Slot(name, index) ==
  IF name \in DOMAIN element.listeners THEN element.listeners[name][index]
  ELSE "null"

\* C37: after any sequence of updateListener calls on an element, for every
\* event name and phase the proxy is attached exactly when the slot holds a
\* handler, and never more than once; after a call with a null handler the
\* slot of its event is null and its proxy detached; and no event calls a
\* null slot: an event whose slot is null calls nothing.
ProxyAttachedIffSlotSet ==
  element.created
  => /\ \A name \in EventNames, index \in {BUBBLE_INDEX, CAPTURE_INDEX} :
          /\ Attached(ProxyListener(name, index)) <= 1
          /\ Attached(ProxyListener(name, index)) = 1
               <=> Slot(name, index) # "null"
     /\ \A k \in DOMAIN element.eventListeners :
          \E name \in EventNames, index \in {BUBBLE_INDEX, CAPTURE_INDEX} :
            element.eventListeners[k] = ProxyListener(name, index)
     /\ (element.call # <<>> /\ element.call.nextProp = "null")
          => /\ Slot(EventOf(element.call.propKey), BUBBLE_INDEX) = "null"
             /\ Attached(ProxyListener(EventOf(element.call.propKey),
                                       BUBBLE_INDEX)) = 0
     /\ \A k \in DOMAIN element.fired.calls :
          element.fired.calls[k][1] # "TypeError"
     /\ (/\ element.fired.type # <<>>
         /\ Slot(element.fired.type, BUBBLE_INDEX) = "null")
          => element.fired.calls = <<>>

\* a handler was set for onInput and removed again, another handler stays
\* attached, and an input event calls nothing
ProxyDetachedWitness ==
  /\ element.created
  /\ ~element.disabled
  /\ element.call # <<>>
  /\ element.call = [propKey |-> onInput, nextProp |-> "null"]
  /\ input \in DOMAIN element.listeners
  /\ Slot(click, BUBBLE_INDEX) = "h1"
  /\ Attached(ProxyListener(click, BUBBLE_INDEX)) = 1
  /\ Attached(ProxyListener(input, BUBBLE_INDEX)) = 0
  /\ element.fired = [type |-> input, calls |-> <<>>]

\* the calls a click makes when every handler runs in the phase of its key
CallsInOwnPhase ==
  (IF onClickCapture \in DOMAIN element.props
      /\ element.props[onClickCapture] # "null"
   THEN <<<<element.props[onClickCapture], "captured">>>> ELSE <<>>)
  \o (IF onClick \in DOMAIN element.props /\ element.props[onClick] # "null"
      THEN <<<<element.props[onClick], "bubbled">>>> ELSE <<>>)

\* C38: a handler passed for onClickCapture is kept in the capture slot of
\* click and its proxy attached as a capturing listener, the bubble slot
\* keeping what onClick was last given; a click on an element that is not
\* disabled calls the capture handler in the capture phase and the bubble
\* handler in the bubble phase, so that both coexist.
CaptureKeysUseCaptureSlot ==
  (element.created /\ onClickCapture \in DOMAIN element.props)
  => /\ Slot(click, CAPTURE_INDEX) = element.props[onClickCapture]
     /\ Slot(click, BUBBLE_INDEX) =
          (IF onClick \in DOMAIN element.props THEN element.props[onClick]
           ELSE "null")
     /\ Attached(ProxyListener(click, CAPTURE_INDEX)) = 1
          <=> element.props[onClickCapture] # "null"
     /\ (element.fired.type = click /\ ~element.disabled)
          => element.fired.calls = CallsInOwnPhase

\* the prop keys that do not end in Capture
BubbleKeys == {propKey \in PropKeys : replaceCapture(propKey) = propKey}

\* C39: of two distinct non-capture prop keys of an element, each has a slot
\* of its own: whatever updateListener was called with for the one, the slot
\* of the other holds the handler the other was last given, and that is the
\* handler its native event calls; onChange and onInput are such a pair.
DistinctKeysDistinctSlots ==
  (element.created /\ DOMAIN element.props \subseteq BubbleKeys)
  => \A a, b \in DOMAIN element.props :
       a # b
       => /\ EventOf(a) # EventOf(b)
          /\ Slot(EventOf(a), BUBBLE_INDEX) = element.props[a]
          /\ (/\ element.fired.type = EventOf(a)
              /\ ~element.disabled
              /\ element.props[a] # "null")
               => element.fired.calls = <<<<element.props[a], "bubbled">>>>

====
